---- MODULE Spec2Model ----
(***************************************************************************)
(* Doc-Monitor MCP: versioned change detection over an external document   *)
(* store (check_and_update_document_changes), monitoring records           *)
(* (monitor/list/delete) and the text processing they depend on.           *)
(*                                                                         *)
(* Text is a sequence of one-character strings, so that strip, split and   *)
(* join are computed character by character as the Python code does.       *)
(***************************************************************************)
EXTENDS Integers, Sequences, FiniteSets, TLC

\* ---------------------------------------------------------------------
\* Characters and basic string operations (Python str semantics)
\* ---------------------------------------------------------------------
NL == "\n"
SP == " "

Whitespace == {" ", "\n", "\t", "\r"}
IsSpace(c) == c \in Whitespace

UpperSeq == << "A", "B", "C", "D", "E", "F", "G", "H", "I", "J", "K", "L", "M",
              "N", "O", "P", "Q", "R", "S", "T", "U", "V", "W", "X", "Y", "Z" >>
LowerSeq == << "a", "b", "c", "d", "e", "f", "g", "h", "i", "j", "k", "l", "m",
              "n", "o", "p", "q", "r", "s", "t", "u", "v", "w", "x", "y", "z" >>
UpperChars == {UpperSeq[i] : i \in 1..26}
LowerChars == {LowerSeq[i] : i \in 1..26}
SentenceEnd == {".", "!", "?"}

\* the backquote character (written as a token: the lexer rejects it in a string)
BQ == "BQ"

\* the printable ASCII characters in code order, from 32 on
AsciiPrintable ==
    << " ", "!", "\"", "#", "$", "%", "&", "'", "(", ")", "*", "+", ",", "-", ".", "/",
       "0", "1", "2", "3", "4", "5", "6", "7", "8", "9", ":", ";", "<", "=", ">", "?",
       "@", "A", "B", "C", "D", "E", "F", "G", "H", "I", "J", "K", "L", "M", "N", "O",
       "P", "Q", "R", "S", "T", "U", "V", "W", "X", "Y", "Z", "[", "\\", "]", "^", "_",
       BQ, "a", "b", "c", "d", "e", "f", "g", "h", "i", "j", "k", "l", "m", "n", "o",
       "p", "q", "r", "s", "t", "u", "v", "w", "x", "y", "z", "{", "|", "}", "~" >>

\* ord(c) of an ASCII character
OrdTable ==
    [c \in {AsciiPrintable[i] : i \in 1..Len(AsciiPrintable)} \cup {"\t", "\n", "\r"} |->
        IF c = "\t" THEN 9
        ELSE IF c = "\n" THEN 10
        ELSE IF c = "\r" THEN 13
        ELSE 31 + (CHOOSE i \in 1..Len(AsciiPrintable) : AsciiPrintable[i] = c)]
Ord(c) == OrdTable[c]

SetMin(S) == CHOOSE x \in S : \A y \in S : x <= y
SetMax(S) == CHOOSE x \in S : \A y \in S : x >= y

\* str.lower() / str.upper() on ASCII letters
LowerChar(c) ==
    IF c \in UpperChars
    THEN LowerSeq[CHOOSE i \in 1..26 : UpperSeq[i] = c]
    ELSE c
UpperChar(c) ==
    IF c \in LowerChars
    THEN UpperSeq[CHOOSE i \in 1..26 : LowerSeq[i] = c]
    ELSE c
Lower(s) == [i \in 1..Len(s) |-> LowerChar(s[i])]

\* the first position >= i of s that holds no whitespace (Len(s) + 1 if none)
RECURSIVE SkipSpaces(_, _)
SkipSpaces(s, i) ==
    IF i > Len(s) \/ ~IsSpace(s[i]) THEN i ELSE SkipSpaces(s, i + 1)

\* the last position <= i of s that holds no whitespace (0 if none)
RECURSIVE SkipSpacesBack(_, _)
SkipSpacesBack(s, i) ==
    IF i < 1 \/ ~IsSpace(s[i]) THEN i ELSE SkipSpacesBack(s, i - 1)

\* str.strip()
Strip(s) ==
    LET a == SkipSpaces(s, 1)
        b == SkipSpacesBack(s, Len(s))
    IN  IF a > b THEN <<>> ELSE SubSeq(s, a, b)

\* w occurs in s starting at (1-based) position i
StartsAt(s, i, w) ==
    /\ i >= 1
    /\ i + Len(w) - 1 <= Len(s)
    /\ \A k \in 1..Len(w) : s[i + k - 1] = w[k]

Contains(s, w) == \E i \in 1..(Len(s) + 1) : StartsAt(s, i, w)
EndsWith(s, w) == Len(w) <= Len(s) /\ StartsAt(s, Len(s) - Len(w) + 1, w)

\* str.rfind(w) as a 0-based index, -1 when absent
RFind(s, w) ==
    LET occ == {i \in 1..Len(s) : StartsAt(s, i, w)}
    IN  IF occ = {} THEN -1 ELSE SetMax(occ) - 1

\* str.find(w) as a 0-based index, -1 when absent
Find(s, w) ==
    LET occ == {i \in 1..Len(s) : StartsAt(s, i, w)}
    IN  IF occ = {} THEN -1 ELSE SetMin(occ) - 1

\* s[a:b] with 0-based, end-exclusive Python slice bounds, 0 <= a
Slice(s, a, b) ==
    LET e == IF b > Len(s) THEN Len(s) ELSE b
    IN  IF a >= e THEN <<>> ELSE SubSeq(s, a + 1, e)

\* sep.join(parts)
RECURSIVE Join(_, _)
Join(parts, sep) ==
    IF parts = <<>> THEN <<>>
    ELSE IF Len(parts) = 1 THEN parts[1]
    ELSE parts[1] \o sep \o Join(Tail(parts), sep)

\* str.split(sep) for a non-empty separator: leftmost, non-overlapping
RECURSIVE SplitFrom(_, _, _)
SplitFrom(s, sep, start) ==
    LET occ == {i \in start..Len(s) : StartsAt(s, i, sep)}
    IN  IF occ = {} THEN << SubSeq(s, start, Len(s)) >>
        ELSE LET i == SetMin(occ)
             IN  << SubSeq(s, start, i - 1) >> \o SplitFrom(s, sep, i + Len(sep))
Split(s, sep) == SplitFrom(s, sep, 1)

\* [x for x in xs if pred]: keep the elements at the positions in keep
RECURSIVE SelectIdx(_, _, _)
SelectIdx(xs, keep, i) ==
    IF i > Len(xs) THEN <<>>
    ELSE (IF i \in keep THEN << xs[i] >> ELSE <<>>) \o SelectIdx(xs, keep, i + 1)

\* [c] * n
Rep(c, n) == [i \in 1..n |-> c]

\* ---------------------------------------------------------------------
\* AdaptiveChunker (ingestion.py)
\* ---------------------------------------------------------------------
\* AdaptiveChunker() default configuration
DefaultMaxChunkSize == 2000
DefaultMinChunkSize == 100
DefaultOverlapSize == 200
DefaultChunker ==
    [max_chunk_size |-> DefaultMaxChunkSize,
     min_chunk_size |-> DefaultMinChunkSize,
     overlap_size   |-> DefaultOverlapSize]

\* the section keywords of header_pattern
HeaderKeywords ==
    { << "I","n","t","r","o","d","u","c","t","i","o","n" >>,
      << "O","v","e","r","v","i","e","w" >>,
      << "G","e","t","t","i","n","g"," ","S","t","a","r","t","e","d" >>,
      << "A","P","I" >>,
      << "U","s","a","g","e" >>,
      << "E","x","a","m","p","l","e" >>,
      << "R","e","f","e","r","e","n","c","e" >>,
      << "C","o","n","c","l","u","s","i","o","n" >> }

\* the lookahead of header_pattern holds at position p of s:
\*   #+\s  |  \n[A-Z][^a-z]*\n  |  (?:Introduction|Overview|...)
HeaderLookahead(s, p) ==
    \/ /\ p <= Len(s) /\ s[p] = "#"
       /\ \E j \in (p + 1)..Len(s) :
             /\ IsSpace(s[j])
             /\ \A k \in p..(j - 1) : s[k] = "#"
    \/ /\ p + 1 <= Len(s) /\ s[p] = NL /\ s[p + 1] \in UpperChars
       /\ \E j \in (p + 2)..Len(s) :
             /\ s[j] = NL
             /\ \A k \in (p + 2)..(j - 1) : s[k] \notin LowerChars
    \/ \E w \in HeaderKeywords : StartsAt(s, p, w)

\* the pieces of s between the (removed) one-character separators at cuts
RECURSIVE PiecesBetween(_, _, _)
PiecesBetween(s, cuts, start) ==
    LET rest == {i \in cuts : i >= start}
    IN  IF rest = {} THEN << SubSeq(s, start, Len(s)) >>
        ELSE LET i == SetMin(rest)
             IN  << SubSeq(s, start, i - 1) >> \o PiecesBetween(s, cuts, i + 1)

\* AdaptiveChunker._split_by_headers
split_by_headers(text) ==
    LET cuts     == {i \in 1..Len(text) : text[i] = NL /\ HeaderLookahead(text, i + 1)}
        sections == PiecesBetween(text, cuts, 1)
        keep     == {i \in 1..Len(sections) : Strip(sections[i]) # <<>>}
    IN  SelectIdx(sections, keep, 1)

\* re.split(r'(?<=[.!?])\s+', text): cut at every whitespace run that
\* follows a sentence-ending character
RECURSIVE SentencesFrom(_, _)
SentencesFrom(s, start) ==
    LET occ == {i \in start..Len(s) :
                   i >= 2 /\ IsSpace(s[i]) /\ s[i - 1] \in SentenceEnd}
    IN  IF occ = {} THEN << SubSeq(s, start, Len(s)) >>
        ELSE LET i == SetMin(occ)
             IN  << SubSeq(s, start, i - 1) >> \o SentencesFrom(s, SkipSpaces(s, i))

\* the loop of AdaptiveChunker._split_by_sentences over sentences[i..]
RECURSIVE SentenceLoop(_, _, _, _, _)
SentenceLoop(cfg, sentences, i, chunks, current) ==
    IF i > Len(sentences)
    THEN IF current # <<>> THEN Append(chunks, Strip(current)) ELSE chunks
    ELSE LET sentence == sentences[i]
         IN  IF Len(current) + Len(sentence) <= cfg.max_chunk_size
             THEN SentenceLoop(cfg, sentences, i + 1, chunks,
                               IF current # <<>>
                               THEN current \o << SP >> \o sentence
                               ELSE sentence)
             ELSE SentenceLoop(cfg, sentences, i + 1,
                               IF current # <<>>
                               THEN Append(chunks, Strip(current))
                               ELSE chunks,
                               sentence)

\* AdaptiveChunker._split_by_sentences
split_by_sentences(cfg, text) ==
    SentenceLoop(cfg, SentencesFrom(text, 1), 1, <<>>, <<>>)

\* the loop of AdaptiveChunker._split_by_paragraphs_and_sentences
RECURSIVE ParagraphLoop(_, _, _, _, _)
ParagraphLoop(cfg, paragraphs, i, chunks, current) ==
    IF i > Len(paragraphs)
    THEN IF current # <<>> /\ Len(Strip(current)) >= cfg.min_chunk_size
         THEN Append(chunks, Strip(current))
         ELSE chunks
    ELSE LET paragraph == Strip(paragraphs[i])
         IN  IF paragraph = <<>>
             THEN ParagraphLoop(cfg, paragraphs, i + 1, chunks, current)
             ELSE LET flush   == Len(current) + Len(paragraph) > cfg.max_chunk_size
                                 /\ current # <<>>
                      chunks1 == IF flush /\ Len(Strip(current)) >= cfg.min_chunk_size
                                 THEN Append(chunks, Strip(current))
                                 ELSE chunks
                      cur1    == IF flush THEN paragraph
                                 ELSE IF current # <<>>
                                      THEN current \o << NL, NL >> \o paragraph
                                      ELSE paragraph
                      sc      == split_by_sentences(cfg, cur1)
                      resplit == Len(cur1) > cfg.max_chunk_size /\ Len(sc) > 1
                      chunks2 == IF resplit
                                 THEN chunks1 \o SubSeq(sc, 1, Len(sc) - 1)
                                 ELSE chunks1
                      cur2    == IF resplit THEN sc[Len(sc)] ELSE cur1
                  IN  ParagraphLoop(cfg, paragraphs, i + 1, chunks2, cur2)

\* AdaptiveChunker._split_by_paragraphs_and_sentences
split_by_paragraphs_and_sentences(cfg, text) ==
    ParagraphLoop(cfg, Split(text, << NL, NL >>), 1, <<>>, <<>>)

\* the overlap prefix taken from the previous chunk
OverlapText(cfg, prev_chunk) ==
    \* prev_chunk[-overlap_size:] (the whole chunk when overlap_size is 0)
    LET tail == IF Len(prev_chunk) > cfg.overlap_size /\ cfg.overlap_size > 0
                THEN SubSeq(prev_chunk, Len(prev_chunk) - cfg.overlap_size + 1,
                            Len(prev_chunk))
                ELSE prev_chunk
        \* matches of [.!?]\s+ in tail
        starts == {i \in 1..(Len(tail) - 1) :
                      tail[i] \in SentenceEnd /\ IsSpace(tail[i + 1])}
    IN  IF starts = {} THEN tail
        ELSE SubSeq(tail, SkipSpaces(tail, SetMax(starts) + 1), Len(tail))

\* AdaptiveChunker._add_overlap_and_clean
add_overlap_and_clean(cfg, chunks) ==
    IF Len(chunks) <= 1 THEN chunks
    ELSE LET final == [i \in 1..Len(chunks) |->
                          IF i = 1 THEN chunks[1]
                          ELSE OverlapText(cfg, chunks[i - 1])
                                 \o << NL, NL >> \o chunks[i]]
             keep  == {i \in 1..Len(final) :
                          Len(Strip(final[i])) >= cfg.min_chunk_size}
         IN  SelectIdx(final, keep, 1)

\* the loop of semantic_chunk over the header sections
RECURSIVE SectionLoop(_, _, _)
SectionLoop(cfg, sections, i) ==
    IF i > Len(sections) THEN <<>>
    ELSE (IF Len(sections[i]) <= cfg.max_chunk_size
          THEN << Strip(sections[i]) >>
          ELSE split_by_paragraphs_and_sentences(cfg, sections[i]))
         \o SectionLoop(cfg, sections, i + 1)

\* AdaptiveChunker.semantic_chunk
semantic_chunk(cfg, text) ==
    IF text = <<>> \/ Len(Strip(text)) < cfg.min_chunk_size
    THEN IF Strip(text) # <<>> THEN << Strip(text) >> ELSE <<>>
    ELSE add_overlap_and_clean(cfg, SectionLoop(cfg, split_by_headers(text), 1))

\* ---------------------------------------------------------------------
\* processing.py
\* ---------------------------------------------------------------------
\* CHUNK_SIZE of doc_fetcher_mcp.py, the default chunk_size
CHUNK_SIZE == 5000

TripleBacktick == << BQ, BQ, BQ >>

\* the split point chosen by smart_chunk_markdown inside text[start:end]
\* (0-based start, chunk of chunk_size characters); x > chunk_size * 0.3
\* is computed as 10 * x > 3 * chunk_size
SmartSplitEnd(text, start, chunk_size) ==
    LET chunk       == Slice(text, start, start + chunk_size)
        code_block  == RFind(chunk, TripleBacktick)
        last_break  == RFind(chunk, << NL, NL >>)
        last_period == RFind(chunk, << ".", SP >>)
    IN  IF code_block # -1 /\ 10 * code_block > 3 * chunk_size
        THEN start + code_block
        ELSE IF last_break # -1
             THEN IF 10 * last_break > 3 * chunk_size
                  THEN start + last_break
                  ELSE start + chunk_size
             ELSE IF last_period # -1 /\ 10 * last_period > 3 * chunk_size
                  THEN start + last_period + 1
                  ELSE start + chunk_size

RECURSIVE SmartChunkFrom(_, _, _)
SmartChunkFrom(text, chunk_size, start) ==
    IF start >= Len(text) THEN <<>>
    ELSE IF start + chunk_size >= Len(text)
         THEN << Strip(Slice(text, start, Len(text))) >>
         ELSE LET end   == SmartSplitEnd(text, start, chunk_size)
                  chunk == Strip(Slice(text, start, end))
              IN  (IF chunk # <<>> THEN << chunk >> ELSE <<>>)
                    \o SmartChunkFrom(text, chunk_size, end)

\* smart_chunk_markdown
smart_chunk_markdown(text, chunk_size) == SmartChunkFrom(text, chunk_size, 0)

\* re.search(pattern, text, re.IGNORECASE) for a pattern made of literal
\* words; joined by \s+ when ws_plus, by one literal space otherwise
RECURSIVE WordsMatchAt(_, _, _, _, _)
WordsMatchAt(s, p, words, k, ws_plus) ==
    /\ StartsAt(s, p, words[k])
    /\ IF k = Len(words) THEN TRUE
       ELSE LET q == p + Len(words[k])
            IN  IF ws_plus
                THEN \E n \in 1..(Len(s) - q + 1) :
                        /\ \A j \in q..(q + n - 1) : IsSpace(s[j])
                        /\ WordsMatchAt(s, q + n, words, k + 1, TRUE)
                ELSE /\ q <= Len(s) /\ s[q] = SP
                     /\ WordsMatchAt(s, q + 1, words, k + 1, FALSE)

SearchIgnoreCase(pat, text) ==
    \E p \in 1..Len(text) : WordsMatchAt(Lower(text), p, pat.words, 1, pat.ws_plus)

\* api_patterns of analyze_change_impact
api_patterns ==
    << [words |-> << <<"a","p","i">>, <<"e","n","d","p","o","i","n","t">> >>, ws_plus |-> TRUE],
       [words |-> << <<"a","p","i">>, <<"v","e","r","s","i","o","n">> >>, ws_plus |-> TRUE],
       [words |-> << <<"r","e","q","u","e","s","t">>,
                     <<"p","a","r","a","m","e","t","e","r","s">> >>, ws_plus |-> TRUE],
       [words |-> << <<"r","e","s","p","o","n","s","e">>, <<"f","o","r","m","a","t">> >>,
        ws_plus |-> TRUE],
       [words |-> << <<"h","t","t","p">>, <<"m","e","t","h","o","d">> >>, ws_plus |-> TRUE],
       [words |-> << <<"a","u","t","h","e","n","t","i","c","a","t","i","o","n">> >>,
        ws_plus |-> TRUE],
       [words |-> << <<"h","e","a","d","e","r","s">> >>, ws_plus |-> TRUE],
       [words |-> << <<"q","u","e","r","y">>,
                     <<"p","a","r","a","m","e","t","e","r","s">> >>, ws_plus |-> TRUE] >>

\* breaking_patterns of analyze_change_impact
breaking_patterns ==
    << [words |-> << <<"b","r","e","a","k","i","n","g">>, <<"c","h","a","n","g","e">> >>,
        ws_plus |-> TRUE],
       [words |-> << <<"d","e","p","r","e","c","a","t","e","d">> >>, ws_plus |-> TRUE],
       [words |-> << <<"r","e","m","o","v","e","d">> >>, ws_plus |-> TRUE],
       [words |-> << <<"n","o">>, <<"l","o","n","g","e","r">>,
                     <<"s","u","p","p","o","r","t","e","d">> >>, ws_plus |-> FALSE],
       [words |-> << <<"c","h","a","n","g","e","d">>, <<"f","r","o","m">> >>,
        ws_plus |-> FALSE],
       [words |-> << <<"r","e","p","l","a","c","e","d">>, <<"b","y">> >>,
        ws_plus |-> FALSE] >>

AnyPattern(pats, text) == \E i \in 1..Len(pats) : SearchIgnoreCase(pats[i], text)

\* analyze_change_impact: change is [change_type, change_impact, new_content]
analyze_change_impact(change) ==
    LET api      == AnyPattern(api_patterns, change.new_content)
        breaking == AnyPattern(breaking_patterns, change.new_content)
    IN  [severity         |-> IF breaking THEN "high" ELSE change.change_impact,
         breaking_changes |-> breaking,
         api_changes      |-> api,
         recommendations  |->
             (IF api THEN << "api" >> ELSE <<>>)
             \o (IF breaking THEN << "breaking" >> ELSE <<>>)
             \o (IF change.change_type \in {"added", "deleted", "modified"}
                 THEN << change.change_type >> ELSE <<>>)]

\* ---------------------------------------------------------------------
\* The document store (schema of scripts/db_setup.py) and database.py
\* ---------------------------------------------------------------------
\* crawled_pages.version: INTEGER NOT NULL DEFAULT 1
DefaultRowVersion == 1
\* batch_upsert_documents(..., batch_size = 20)
DefaultBatchSize == 20

\* the row crawled_pages keeps for an inserted record: the insert payload
\* of _build_batch_data has no version column, so the column default applies
StoredRow(data) ==
    [url          |-> data.url,
     chunk_number |-> data.chunk_number,
     version      |-> DefaultRowVersion,
     content      |-> data.content,
     meta_version |-> data.meta_version]

RowKey(r) == << r.url, r.chunk_number, r.version >>

\* get_latest_version(p_url): coalesce(max(version), 0)
get_latest_version(pages, url) ==
    LET vs == {r.version : r \in {x \in pages : x.url = url}}
    IN  IF vs = {} THEN 0 ELSE SetMax(vs)

\* the delete phase of batch_upsert_documents; fx.delete_fails makes the
\* batch delete raise, fx.delete_one_fails the urls whose fallback delete raises
DeleteExisting(pages, urls, fx) ==
    IF urls = {} THEN pages
    ELSE IF ~fx.delete_fails THEN {r \in pages : r.url \notin urls}
    ELSE {r \in pages : r.url \notin (urls \ fx.delete_one_fails)}

NumBatches(n, batch_size) == (n + batch_size - 1) \div batch_size

\* rows[i:batch_end] of batch number b (b = 1, 2, ...)
BatchOf(rows, batch_size, b) ==
    LET i         == (b - 1) * batch_size
        batch_end == IF i + batch_size < Len(rows) THEN i + batch_size ELSE Len(rows)
    IN  SubSeq(rows, i + 1, batch_end)

\* insert(batch_data).execute() raises and inserts nothing when the
\* collaborator fails or UNIQUE(url, chunk_number, version) is violated
InsertRaises(pages, batch, b, fx) ==
    LET stored == {StoredRow(batch[j]) : j \in 1..Len(batch)}
        keys   == {RowKey(r) : r \in stored}
    IN  \/ b \in fx.insert_fails
        \/ Cardinality(keys) < Len(batch)
        \/ \E r \in pages : RowKey(r) \in keys

RECURSIVE InsertBatches(_, _, _, _, _)
InsertBatches(pages, rows, batch_size, b, fx) ==
    IF b > NumBatches(Len(rows), batch_size) THEN pages
    ELSE LET batch  == BatchOf(rows, batch_size, b)
             stored == {StoredRow(batch[j]) : j \in 1..Len(batch)}
         IN  InsertBatches(IF InsertRaises(pages, batch, b, fx)
                           THEN pages ELSE pages \cup stored,
                           rows, batch_size, b + 1, fx)

RowUrls(rows) == {rows[i].url : i \in 1..Len(rows)}

\* batch_upsert_documents: the table after the call (it returns None and
\* lets no store exception out)
batch_upsert_documents(pages, rows, batch_size, fx) ==
    InsertBatches(DeleteExisting(pages, RowUrls(rows), fx), rows, batch_size, 1, fx)

\* some store call raised inside batch_upsert_documents (and was swallowed)
RECURSIVE SomeInsertRaised(_, _, _, _, _)
SomeInsertRaised(pages, rows, batch_size, b, fx) ==
    IF b > NumBatches(Len(rows), batch_size) THEN FALSE
    ELSE LET batch  == BatchOf(rows, batch_size, b)
             stored == {StoredRow(batch[j]) : j \in 1..Len(batch)}
             raises == InsertRaises(pages, batch, b, fx)
         IN  \/ raises
             \/ SomeInsertRaised(IF raises THEN pages ELSE pages \cup stored,
                                 rows, batch_size, b + 1, fx)

UpsertRaised(pages, rows, batch_size, fx) ==
    \/ RowUrls(rows) # {} /\ fx.delete_fails
    \/ SomeInsertRaised(DeleteExisting(pages, RowUrls(rows), fx), rows, batch_size, 1, fx)

\* the urls, chunk_numbers, contents, metadatas lists built for one url that
\* urlparse accepts
BuildRows(url, chunks, version) ==
    [i \in 1..Len(chunks) |->
        [url |-> url, chunk_number |-> i - 1, content |-> chunks[i],
         meta_version |-> version]]

\* select("content").eq("url", url).eq("version", v).order("chunk_number")
RECURSIVE OrderByChunkNumber(_)
OrderByChunkNumber(rows) ==
    IF rows = {} THEN <<>>
    ELSE LET r == CHOOSE x \in rows : \A y \in rows : x.chunk_number <= y.chunk_number
         IN  << r >> \o OrderByChunkNumber(rows \ {r})

SelectVersion(pages, url, version) ==
    OrderByChunkNumber({r \in pages : r.url = url /\ r.version = version})

\* "\n".join(chunk["content"] for chunk in data if chunk.get("content"))
CurrentText(data) ==
    LET keep == {i \in 1..Len(data) : data[i].content # <<>>}
        rows == SelectIdx(data, keep, 1)
    IN  Join([i \in 1..Len(rows) |-> rows[i].content], << NL >>)

\* ---------------------------------------------------------------------
\* urllib.parse, as the tools and the crawler use it
\* ---------------------------------------------------------------------
\* the first position from i on holding one of the characters, else Len + 1
RECURSIVE FirstOf(_, _, _)
FirstOf(s, cs, i) ==
    IF i > Len(s) THEN Len(s) + 1
    ELSE IF s[i] \in cs THEN i
    ELSE FirstOf(s, cs, i + 1)



\* ---------------------------------------------------------------------
\* urllib.parse.urlparse, as is_sitemap and the crawler use it
\* ---------------------------------------------------------------------
DigitChars == {"0", "1", "2", "3", "4", "5", "6", "7", "8", "9"}
HexChars == DigitChars \cup {"a", "b", "c", "d", "e", "f", "A", "B", "C", "D", "E", "F"}
\* scheme_chars
SchemeChars == LowerChars \cup UpperChars \cup DigitChars \cup {"+", "-", "."}
\* uses_params
UsesParams ==
    {<<>>, << "f","t","p" >>, << "h","d","l" >>,
     << "p","r","o","s","p","e","r","o" >>, << "h","t","t","p" >>,
     << "i","m","a","p" >>, << "h","t","t","p","s" >>, << "s","h","t","t","p" >>,
     << "r","t","s","p" >>, << "r","t","s","p","s" >>, << "r","t","s","p","u" >>,
     << "s","i","p" >>, << "s","i","p","s" >>, << "m","m","s" >>,
     << "s","f","t","p" >>, << "t","e","l" >>}

\* url.lstrip(_WHATWG_C0_CONTROL_OR_SPACE), then tab, CR and LF removed
CleanUrl(url) ==
    SelectSeq(SubSeq(url, SkipSpaces(url, 1), Len(url)),
              LAMBDA c : c \notin {"\t", "\r", "\n"})

\* the position of the ":" that ends the scheme of a cleaned url, 0 if the
\* url has no scheme
SchemeEnd(u) ==
    LET i == Find(u, << ":" >>)
    IN  IF /\ i > 0
           /\ u[1] \in LowerChars \cup UpperChars
           /\ \A k \in 1..i : u[k] \in SchemeChars
        THEN i + 1 ELSE 0

\* the value of a string of decimal digits
RECURSIVE DecimalValue(_)
DecimalValue(s) ==
    IF s = <<>> THEN 0 ELSE 10 * DecimalValue(SubSeq(s, 1, Len(s) - 1)) + (Ord(s[Len(s)]) - 48)

\* IPv4Address._parse_octet accepts the octet
ValidOctet(o) ==
    /\ o # <<>>
    /\ \A k \in 1..Len(o) : o[k] \in DigitChars
    /\ Len(o) <= 3
    /\ ~(Len(o) > 1 /\ o[1] = "0")
    /\ DecimalValue(o) <= 255

ValidIPv4(s) ==
    LET octets == Split(s, << "." >>)
    IN  Len(octets) = 4 /\ \A k \in 1..4 : ValidOctet(octets[k])

ValidHextet(h) ==
    h # <<>> /\ Len(h) <= 4 /\ \A k \in 1..Len(h) : h[k] \in HexChars

\* IPv6Address._ip_int_from_string accepts the groups (an IPv4 tail already
\* replaced by two groups)
ValidGroups(parts) ==
    LET n == Len(parts)
        skips == {i \in 2..(n - 1) : parts[i] = <<>>}
    IN  /\ n >= 3
        /\ n <= 9
        /\ Cardinality(skips) <= 1
        /\ IF skips # {}
           THEN LET skip_index == SetMin(skips) - 1
                    hi == IF parts[1] = <<>> THEN skip_index - 1 ELSE skip_index
                    lo == IF parts[n] = <<>> THEN n - skip_index - 2
                          ELSE n - skip_index - 1
                IN  /\ parts[1] = <<>> => hi = 0
                    /\ parts[n] = <<>> => lo = 0
                    /\ 8 - (hi + lo) >= 1
                    /\ \A i \in 1..n :
                          (i < skip_index + 1 /\ i <= hi) \/ (i > n - lo)
                              => ValidHextet(parts[i])
           ELSE /\ n = 8
                /\ \A i \in 1..n : ValidHextet(parts[i])

\* ipaddress.IPv6Address accepts the string
ValidIPv6(s) ==
    LET pct == Find(s, << "%" >>)
        addr == IF pct = -1 THEN s ELSE Slice(s, 0, pct)
        scope == IF pct = -1 THEN <<>> ELSE Slice(s, pct + 1, Len(s))
        parts == Split(addr, << ":" >>)
        tail == parts[Len(parts)]
        groups == IF Contains(tail, << "." >>)
                  THEN SubSeq(parts, 1, Len(parts) - 1) \o << << "0" >>, << "0" >> >>
                  ELSE parts
    IN  /\ pct # -1 => (scope # <<>> /\ ~Contains(scope, << "%" >>))
        /\ Len(parts) >= 3
        /\ Contains(tail, << "." >>) => ValidIPv4(tail)
        /\ ValidGroups(groups)

\* _check_bracketed_host raises for the text between the brackets
BadBracketedHost(hostname) ==
    IF hostname # <<>> /\ hostname[1] = "v"
    THEN LET dot == FirstOf(hostname, {"."}, 2)
         IN  ~(/\ dot > 2
               /\ dot < Len(hostname)
               /\ \A k \in 2..(dot - 1) : hostname[k] \in HexChars)
    ELSE ~ValidIPv6(hostname)

\* urlsplit raises ValueError for the netloc
BadNetloc(netloc) ==
    LET open == FirstOf(netloc, {"["}, 1)
        close == FirstOf(netloc, {"]"}, 1)
    IN  IF open > Len(netloc) /\ close > Len(netloc) THEN FALSE
        ELSE IF open > Len(netloc) \/ close > Len(netloc) THEN TRUE
        ELSE BadBracketedHost(SubSeq(netloc, open + 1,
                                     FirstOf(netloc, {"]"}, open + 1) - 1))

\* _splitparams and the result of urlparse: params are split off the last
\* segment of the path for the schemes of uses_params
ParsedUrl(scheme, netloc, full_path, semi, query, fragment) ==
    [raises   |-> BadNetloc(netloc),
     scheme   |-> scheme,
     netloc   |-> netloc,
     path     |-> SubSeq(full_path, 1, semi - 1),
     params   |-> SubSeq(full_path, semi + 1, Len(full_path)),
     query    |-> query,
     fragment |-> fragment]

\* the position of the ";" that starts the params, Len + 1 without params
ParamsStart(scheme, full_path) ==
    IF ~(scheme \in UsesParams) THEN Len(full_path) + 1
    ELSE IF Contains(full_path, << "/" >>)
    THEN FirstOf(full_path, {";"}, RFind(full_path, << "/" >>) + 1)
    ELSE FirstOf(full_path, {";"}, 1)

\* urlsplit from the "?" on: u3 is the url without scheme, netloc, fragment
SplitQuery(scheme, netloc, u3, mark, fragment) ==
    ParsedUrl(scheme, netloc, SubSeq(u3, 1, mark - 1),
              ParamsStart(scheme, SubSeq(u3, 1, mark - 1)),
              SubSeq(u3, mark + 1, Len(u3)), fragment)

\* urlsplit from the "#" on: u2 is the url without scheme and netloc
SplitFragment(scheme, netloc, u2, hash) ==
    SplitQuery(scheme, netloc, SubSeq(u2, 1, hash - 1),
               FirstOf(SubSeq(u2, 1, hash - 1), {"?"}, 1),
               SubSeq(u2, hash + 1, Len(u2)))

\* urlsplit from the netloc on: u1 is the url without its scheme, delim the
\* position that ends the netloc
SplitNetloc(scheme, u1, has_netloc, delim) ==
    SplitFragment(scheme,
                  IF has_netloc THEN SubSeq(u1, 3, delim - 1) ELSE <<>>,
                  SubSeq(u1, delim, Len(u1)),
                  FirstOf(SubSeq(u1, delim, Len(u1)), {"#"}, 1))

\* urlsplit after the scheme: a netloc follows "//"
SplitAfterScheme(scheme, u1) ==
    SplitNetloc(scheme, u1, Slice(u1, 0, 2) = << "/", "/" >>,
                IF Slice(u1, 0, 2) = << "/", "/" >>
                THEN FirstOf(u1, {"/", "?", "#"}, 3) ELSE 1)

\* urlsplit of the cleaned url u0 whose scheme ends before position colon
SplitScheme(u0, colon, default_scheme) ==
    SplitAfterScheme(IF colon = 0 THEN default_scheme
                     ELSE Lower(SubSeq(u0, 1, colon - 1)),
                     SubSeq(u0, colon + 1, Len(u0)))

\* urlparse(url, scheme): the six components, or raises
urlparse_scheme(url, default_scheme) ==
    SplitScheme(CleanUrl(url), SchemeEnd(CleanUrl(url)), default_scheme)

SitemapWord == << "s", "i", "t", "e", "m", "a", "p" >>
SitemapXml  == SitemapWord \o << ".", "x", "m", "l" >>

\* the urls the tools are called with: a page, a page below it, an OpenAPI
\* spec and a sitemap
U_page == << "h","t","t","p",":","/","/","h","/","p" >>
U_sub == U_page \o << "/", "q" >>
U_api  == << "h","t","t","p",":","/","/","h","/","a",".","J","S","O","N" >>
U_map == << "h","t","t","p",":","/","/","h","/" >> \o SitemapXml

\* the pages crawled: three of one domain and one of another
P_a == << "h","t","t","p",":","/","/","h","/","a" >>
P_b == << "h","t","t","p",":","/","/","h","/","b" >>
P_c == << "h","t","t","p",":","/","/","h","/","c" >>
P_ext == << "h","t","t","p",":","/","/","x","/","a" >>

\* urlparse of these urls, computed once
ParsedUrls ==
    [url \in {U_page, U_sub, U_api, U_map, P_a, P_b, P_c, P_ext} |->
        urlparse_scheme(url, <<>>)]

\* urlparse(url)
urlparse(url) ==
    IF url \in DOMAIN ParsedUrls THEN ParsedUrls[url] ELSE urlparse_scheme(url, <<>>)

\* the exception urlparse raises for a netloc it rejects
ValueError == "ValueError"

\* urlparse(url).path
UrlPath(url) == IF urlparse(url).raises THEN ValueError ELSE urlparse(url).path

\* urlparse(url).netloc
Netloc(url) == IF urlparse(url).raises THEN ValueError ELSE urlparse(url).netloc

\* uses_relative and uses_netloc
UsesRelative ==
    {<<>>, << "f","t","p" >>, << "h","t","t","p" >>, << "g","o","p","h","e","r" >>,
     << "n","n","t","p" >>, << "i","m","a","p" >>, << "w","a","i","s" >>,
     << "f","i","l","e" >>, << "h","t","t","p","s" >>, << "s","h","t","t","p" >>,
     << "m","m","s" >>, << "p","r","o","s","p","e","r","o" >>, << "r","t","s","p" >>,
     << "r","t","s","p","s" >>, << "r","t","s","p","u" >>, << "s","f","t","p" >>,
     << "s","v","n" >>, << "s","v","n","+","s","s","h" >>, << "w","s" >>,
     << "w","s","s" >>}
UsesNetloc ==
    (UsesRelative \ {<<>>})
        \cup {<<>>, << "t","e","l","n","e","t" >>, << "s","n","e","w","s" >>,
              << "r","s","y","n","c" >>, << "n","f","s" >>, << "g","i","t" >>,
              << "g","i","t","+","s","s","h" >>}

\* urlunparse((scheme, netloc, path, params, query, fragment))
urlunparse(scheme, netloc, path, params, query, fragment) ==
    LET url0 == IF params # <<>> THEN path \o << ";" >> \o params ELSE path
        url1 == IF netloc # <<>>
                   \/ (scheme # <<>> /\ scheme \in UsesNetloc
                         /\ Slice(url0, 0, 2) # << "/", "/" >>)
                THEN << "/", "/" >> \o netloc
                     \o (IF url0 # <<>> /\ url0[1] # "/" THEN << "/" >> ELSE <<>>)
                     \o url0
                ELSE url0
    IN  (IF scheme # <<>> THEN scheme \o << ":" >> ELSE <<>>)
        \o url1
        \o (IF query # <<>> THEN << "?" >> \o query ELSE <<>>)
        \o (IF fragment # <<>> THEN << "#" >> \o fragment ELSE <<>>)

\* urldefrag(url) raises
urldefrag_raises(url) == Contains(url, << "#" >>) /\ urlparse(url).raises

\* urldefrag(url)[0]
urldefrag(url) ==
    IF Contains(url, << "#" >>)
    THEN LET p == urlparse(url)
         IN  urlunparse(p.scheme, p.netloc, p.path, p.params, p.query, <<>>)
    ELSE url

\* segments[1:-1] = filter(None, segments[1:-1])
DropEmptyInside(segments) ==
    SelectIdx(segments,
              {i \in 1..Len(segments) :
                  i = 1 \/ i = Len(segments) \/ segments[i] # <<>>}, 1)

\* the loop of urljoin over the segments: ".." pops, "." is skipped
RECURSIVE ResolveSegments(_, _, _)
ResolveSegments(segments, i, resolved_path) ==
    IF i > Len(segments) THEN resolved_path
    ELSE IF segments[i] = << ".", "." >>
    THEN ResolveSegments(segments, i + 1,
                         SubSeq(resolved_path, 1, Len(resolved_path) - 1))
    ELSE IF segments[i] = << "." >>
    THEN ResolveSegments(segments, i + 1, resolved_path)
    ELSE ResolveSegments(segments, i + 1, Append(resolved_path, segments[i]))

\* the path urljoin resolves for a non-empty relative path or params
ResolvedPath(bpath, path) ==
    LET parts == Split(bpath, << "/" >>)
        base_parts == IF parts[Len(parts)] # <<>>
                      THEN SubSeq(parts, 1, Len(parts) - 1) ELSE parts
        segments == IF Slice(path, 0, 1) = << "/" >>
                    THEN Split(path, << "/" >>)
                    ELSE DropEmptyInside(base_parts \o Split(path, << "/" >>))
        resolved == ResolveSegments(segments, 1, <<>>)
        joined == Join(IF segments[Len(segments)] \in {<< "." >>, << ".", "." >>}
                       THEN Append(resolved, <<>>) ELSE resolved,
                       << "/" >>)
    IN  IF joined = <<>> THEN << "/" >> ELSE joined

\* urljoin(base, url) raises
urljoin_raises(base, url) ==
    /\ base # <<>>
    /\ url # <<>>
    /\ \/ urlparse(base).raises
       \/ urlparse_scheme(url, urlparse(base).scheme).raises

\* urljoin for the parsed base b and the parsed url u
JoinParsed(url, b, u) ==
    IF u.scheme # b.scheme \/ u.scheme \notin UsesRelative THEN url
    ELSE IF u.scheme \in UsesNetloc /\ u.netloc # <<>>
    THEN urlunparse(u.scheme, u.netloc, u.path, u.params, u.query, u.fragment)
    ELSE IF u.path = <<>> /\ u.params = <<>>
    THEN urlunparse(u.scheme,
                    IF u.scheme \in UsesNetloc THEN b.netloc ELSE u.netloc,
                    b.path, b.params,
                    IF u.query = <<>> THEN b.query ELSE u.query, u.fragment)
    ELSE urlunparse(u.scheme,
                    IF u.scheme \in UsesNetloc THEN b.netloc ELSE u.netloc,
                    ResolvedPath(b.path, u.path), u.params, u.query, u.fragment)

\* urljoin(base, url)
urljoin(base, url) ==
    IF base = <<>> THEN url
    ELSE IF url = <<>> THEN base
    ELSE JoinParsed(url, urlparse(base), urlparse_scheme(url, urlparse(base).scheme))

\* ---------------------------------------------------------------------
\* Change tracking (document_workflows.py)
\* ---------------------------------------------------------------------
NoValue == -1

\* the dict a call returns; kind stands for its message / error text
Result(success, kind, version, changes_found, changes) ==
    [success |-> success, kind |-> kind, version |-> version,
     changes_found |-> changes_found, changes |-> changes]
Failure(kind) == Result(FALSE, kind, NoValue, NoValue, <<>>)

\* an empty (falsy) entry of comparison.data
EmptyChange == [change_type |-> "", change_impact |-> "", new_content |-> <<>>]

\* the spelling of the impact values, for Python's string comparison
ImpactText ==
    [low    |-> << "l", "o", "w" >>,
     medium |-> << "m", "e", "d", "i", "u", "m" >>,
     high   |-> << "h", "i", "g", "h" >>]

CharCode(c) == CHOOSE i \in 1..26 : LowerSeq[i] = c

\* a < b for Python strings of lowercase letters
PyStrLess(a, b) ==
    \E k \in 1..(Len(b)) :
        /\ \A j \in 1..(k - 1) : j <= Len(a) /\ a[j] = b[j]
        /\ \/ k > Len(a)
           \/ k <= Len(a) /\ CharCode(a[k]) < CharCode(b[k])

\* max(c["impact"] for c in changes): the greatest string
PyMaxImpact(changes) ==
    LET impacts == {changes[i].impact : i \in 1..Len(changes)}
    IN  CHOOSE x \in impacts :
            \A y \in impacts : ~PyStrLess(ImpactText[x], ImpactText[y])

\* change tuples the diff provider can return
T_mod_low  == [change_type |-> "modified", change_impact |-> "low",
               new_content |-> << "o", "k" >>]
T_add_high == [change_type |-> "added", change_impact |-> "high",
               new_content |-> << "a", "p", "i", SP, SP, "V", "e", "r", "s", "i", "o", "n" >>]
T_dep_med  == [change_type |-> "modified", change_impact |-> "medium",
               new_content |-> << "D", "e", "p", "r", "e", "c", "a", "t", "e", "d" >>]
ChangeTuples == {T_mod_low, T_add_high, T_dep_med}
DiffOutputs ==
    {<<>>, << EmptyChange >>, << T_mod_low >>, << T_dep_med >>,
     << T_mod_low, T_add_high >>, << T_dep_med, T_add_high >>}

\* the analysis of every change tuple, computed once
AnalysisOf == [c \in ChangeTuples |-> analyze_change_impact(c)]
Analyze(change) ==
    IF change \in ChangeTuples THEN AnalysisOf[change]
    ELSE analyze_change_impact(change)

\* the changes list built from comparison.data
RECURSIVE BuildChanges(_, _)
BuildChanges(data, i) ==
    IF i > Len(data) THEN <<>>
    ELSE (IF data[i] = EmptyChange THEN <<>>
          ELSE << [type     |-> data[i].change_type,
                   impact   |-> data[i].change_impact,
                   details  |-> data[i].new_content,
                   analysis |-> Analyze(data[i])] >>)
         \o BuildChanges(data, i + 1)

ChangeRecord(url, version, changes) ==
    [url           |-> url,
     version       |-> version,
     change_type   |-> IF Len(changes) > 1 THEN "multiple" ELSE changes[1].type,
     change_impact |-> PyMaxImpact(changes),
     changes       |-> changes,
     chunks        |-> NoValue]

\* table("document_changes").upsert(record, on_conflict="url,version")
UpsertChange(changes_table, record) ==
    {c \in changes_table : ~(c.url = record.url /\ c.version = record.version)}
        \cup {record}

\* build_metadata(chunk, i, url, ...) raises the ValueError of
\* urlparse(url).netloc for the first chunk
MetadataRaises(url, chunks) == chunks # <<>> /\ urlparse(url).raises

\* _store_initial_version
store_initial_version(db, url, chunks, fx) ==
    IF MetadataRaises(url, chunks)
    THEN [pages |-> db.pages, changes |-> db.changes,
          ret |-> Failure("exception"), raised |-> TRUE]
    ELSE [pages   |-> batch_upsert_documents(db.pages, BuildRows(url, chunks, 1),
                                             DefaultBatchSize, fx.upsert),
          changes |-> db.changes,
          ret     |-> Result(TRUE, "first_version_stored", 1, NoValue, <<>>),
          raised  |-> UpsertRaised(db.pages, BuildRows(url, chunks, 1),
                                   DefaultBatchSize, fx.upsert)]

\* the part of _store_new_version_and_detect_changes after the call of
\* batch_upsert_documents, which left the table pages1: the diff provider
\* raises when fx.compare_raises and returns comparison.data = fx.compare
\* otherwise (changes are the entries built from it); fx.record_fails makes
\* the upsert of the change record raise
DetectChanges(db, url, new_version, pages1, swallowed, changes, fx) ==
    IF fx.compare_raises \/ (changes # <<>> /\ fx.record_fails)
    THEN [pages |-> pages1, changes |-> db.changes,
          ret |-> Failure("error_comparing_versions"), raised |-> TRUE]
    ELSE [pages   |-> pages1,
          changes |-> IF changes # <<>>
                      THEN UpsertChange(db.changes,
                               ChangeRecord(url, new_version, changes))
                      ELSE db.changes,
          ret     |-> Result(TRUE, "new_version_stored", new_version,
                             Len(changes), changes),
          raised  |-> swallowed]

\* _store_new_version_and_detect_changes
store_new_version_and_detect_changes(db, url, chunks, current_version, fx) ==
    IF MetadataRaises(url, chunks)
    THEN [pages |-> db.pages, changes |-> db.changes,
          ret |-> Failure("exception"), raised |-> TRUE]
    ELSE DetectChanges(db, url, current_version + 1,
             batch_upsert_documents(db.pages,
                                    BuildRows(url, chunks, current_version + 1),
                                    DefaultBatchSize, fx.upsert),
             UpsertRaised(db.pages, BuildRows(url, chunks, current_version + 1),
                          DefaultBatchSize, fx.upsert),
             IF fx.compare_raises THEN <<>> ELSE BuildChanges(fx.compare, 1),
             fx)

\* page contents the crawler can return
SectionLen == 98
D_ab    == << "a", "b" >>
D_ab_nl == << "a", "b", NL >>
D_blank == << SP >>
D_two   == << "#", SP >> \o Rep("a", SectionLen) \o << NL, "#", SP >> \o Rep("b", SectionLen)
Docs == {D_ab, D_ab_nl, D_blank, D_two}

\* the chunks of every page content, computed once
AdaptiveChunks == [d \in Docs |-> semantic_chunk(DefaultChunker, d)]
SmartChunks    == [d \in Docs |-> smart_chunk_markdown(d, CHUNK_SIZE)]

\* the chunker a caller uses: AdaptiveChunker().semantic_chunk in
\* document_workflows.py, smart_chunk_markdown in doc_fetcher_mcp.py
ChunkWith(chunker, markdown) ==
    IF chunker = "adaptive"
    THEN IF markdown \in Docs THEN AdaptiveChunks[markdown]
         ELSE semantic_chunk(DefaultChunker, markdown)
    ELSE IF markdown \in Docs THEN SmartChunks[markdown]
         ELSE smart_chunk_markdown(markdown, CHUNK_SIZE)

\* a fetch that only counts a reported failure, not empty content
FetchFailedOnlyOnError(fx) == fx.fetch = "fail"

\* if not result.success or not result.markdown
FetchFailed(fx) == fx.fetch = "fail" \/ fx.md = <<>>

\* a return that leaves the store as it is
Unchanged(db, ret, raised) ==
    [pages |-> db.pages, changes |-> db.changes, ret |-> ret, raised |-> raised]

\* check_and_update_document_changes from the select of the current
\* version's rows (data) on
CompareWithStored(db, url, current_version, chunks, data, fx) ==
    IF data = <<>>
    THEN Unchanged(db, Failure("no_current_version_content"), FALSE)
    ELSE IF CurrentText(data) = fx.md
    THEN Unchanged(db, Result(TRUE, "no_changes_detected", current_version, 0, <<>>),
                   FALSE)
    ELSE store_new_version_and_detect_changes(db, url, chunks, current_version, fx)

\* a workflow that refuses to write when the url's latest version is no
\* longer the one the call read
StoreOrCompareSerialized(db, url, current_version, chunks, fx) ==
    IF get_latest_version(db.pages, url) # current_version
    THEN Unchanged(db, Failure("version_conflict"), FALSE)
    ELSE IF current_version = 0
    THEN store_initial_version(db, url, chunks, fx)
    ELSE IF fx.select_fails THEN Unchanged(db, Failure("exception"), TRUE)
    ELSE CompareWithStored(db, url, current_version, chunks,
                           SelectVersion(db.pages, url, current_version), fx)

\* check_and_update_document_changes from the chunking on
StoreOrCompare(db, url, current_version, chunks, fx) ==
    IF current_version = 0
    THEN store_initial_version(db, url, chunks, fx)
    ELSE IF fx.select_fails THEN Unchanged(db, Failure("exception"), TRUE)
    ELSE CompareWithStored(db, url, current_version, chunks,
                           SelectVersion(db.pages, url, current_version), fx)

\* check_and_update_document_changes from the return of crawler.arun on;
\* fx.fetch is "raise", "fail" (result.success false) or "ok" with
\* result.markdown = fx.md
check_after_fetch(db, url, current_version, chunker, fx) ==
    IF fx.fetch = "raise" THEN Unchanged(db, Failure("exception"), TRUE)
    ELSE IF FetchFailed(fx)
    THEN Unchanged(db, Failure("failed_to_crawl"), FALSE)
    ELSE StoreOrCompare(db, url, current_version, ChunkWith(chunker, fx.md), fx)

\* ---------------------------------------------------------------------
\* The MCP tools (doc_fetcher_mcp.py) and their helpers (utils.py)
\* ---------------------------------------------------------------------
Ext_json == << ".", "j", "s", "o", "n" >>
Ext_yaml == << ".", "y", "a", "m", "l" >>
Ext_yml  == << ".", "y", "m", "l" >>
Ext_txt  == << ".", "t", "x", "t" >>

is_openapi_url(url) ==
    \/ EndsWith(Lower(url), Ext_json)
    \/ EndsWith(Lower(url), Ext_yaml)
    \/ EndsWith(Lower(url), Ext_yml)

is_txt(url) == EndsWith(url, Ext_txt)

\* url.endswith('sitemap.xml') is false and urlparse(url) raises
is_sitemap_raises(url) == ~EndsWith(url, SitemapXml) /\ urlparse(url).raises

\* url.endswith('sitemap.xml') or 'sitemap' in urlparse(url).path
is_sitemap(url) ==
    IF is_sitemap_raises(url) THEN ValueError
    ELSE EndsWith(url, SitemapXml) \/ Contains(UrlPath(url), SitemapWord)

\* the crawl_type monitor_documentation gives a url, or the exception of
\* is_sitemap
CrawlType(url) ==
    IF is_openapi_url(url) THEN "openapi"
    ELSE IF is_txt(url) THEN "text_file"
    ELSE IF is_sitemap_raises(url) THEN ValueError
    ELSE IF is_sitemap(url) THEN "sitemap"
    ELSE "webpage"

Upper(s) == [i \in 1..Len(s) |-> UpperChar(s[i])]

\* the markdown of one operation whose details are empty
EndpointMarkdown(op) ==
    Strip(<< "#", "#", SP, BQ >> \o Upper(op.method) \o << SP >> \o op.path
          \o << BQ, NL, NL >>)

\* the header chunk of the info section
InfoMarkdown(spec) ==
    Strip(<< "#", SP >> \o spec.title
          \o << NL, NL, "V", "e", "r", "s", "i", "o", "n", ":", SP >> \o spec.version
          \o << NL, NL >> \o spec.description \o << NL >>)

\* content[i:i+chunk_size] for i in range(0, len(content), chunk_size)
FixedParts(content, chunk_size) ==
    [k \in 1..((Len(content) + chunk_size - 1) \div chunk_size) |->
        Slice(content, (k - 1) * chunk_size,
              IF k * chunk_size < Len(content) THEN k * chunk_size ELSE Len(content))]

RECURSIVE SplitLarge(_, _, _)
SplitLarge(contents, chunk_size, i) ==
    IF i > Len(contents) THEN <<>>
    ELSE (IF Len(contents[i]) > chunk_size
          THEN FixedParts(contents[i], chunk_size)
          ELSE << contents[i] >>)
         \o SplitLarge(contents, chunk_size, i + 1)

\* openapi_spec_to_markdown_chunks of a spec [title, version, description,
\* operations] without components: the contents of the chunks
openapi_spec_to_markdown_chunks(spec, chunk_size) ==
    SplitLarge(<< InfoMarkdown(spec) >>
                  \o [i \in 1..Len(spec.operations) |->
                         EndpointMarkdown(spec.operations[i])],
               chunk_size, 1)

\* table monitored_documentations, kept in the order of date_added
\* upsert(insert_data, on_conflict="url"): the row takes the new crawl_type,
\* status and date_added and keeps its last_crawled_at
UpsertMonitored(rows, url, crawl_type) ==
    LET old == SelectSeq(rows, LAMBDA r : r.url = url)
    IN  SelectSeq(rows, LAMBDA r : r.url # url)
        \o << [url |-> url, crawl_type |-> crawl_type, status |-> "active",
               crawled |-> old # <<>> /\ old[1].crawled] >>

\* update({"last_crawled_at": now}).eq("url", url)
MarkCrawled(rows, url) ==
    [i \in 1..Len(rows) |->
        IF rows[i].url = url THEN [rows[i] EXCEPT !.crawled = TRUE] ELSE rows[i]]

\* a removal that drops the row
RemoveMonitored(rows, url) == SelectSeq(rows, LAMBDA r : r.url # url)

\* update({"status": "deleted"}).eq("url", url)
MarkDeleted(rows, url) ==
    [i \in 1..Len(rows) |->
        IF rows[i].url = url THEN [rows[i] EXCEPT !.status = "deleted"] ELSE rows[i]]

\* select(...).eq("url", url)
MonitoredFor(rows, url) == SelectSeq(rows, LAMBDA r : r.url = url)

\* select(...).eq("status", "active").order("date_added")
ActiveMonitored(rows) == SelectSeq(rows, LAMBDA r : r.status = "active")

\* a lookup that never finds the url monitored
NeverMonitored(existing) == FALSE

\* existing.data and any(doc.get("status") == "active" for doc in existing.data)
AlreadyMonitored(existing) ==
    \E i \in 1..Len(existing) : existing[i].status = "active"

\* the record monitor_documentation writes for version 1
InitialRecord(url, chunk_count) ==
    [url |-> url, version |-> 1, change_type |-> "added", change_impact |-> "high",
     changes |-> <<>>, chunks |-> chunk_count]

\* ---------------------------------------------------------------------
\* State
\* ---------------------------------------------------------------------
VARIABLES
    crawled_pages,             \* rows of table crawled_pages
    document_changes,          \* rows of table document_changes
    monitored_documentations,  \* rows of table monitored_documentations
    calls,                     \* per task: the call suspended at an await
    last,                      \* the call that returned last: its inputs (fetch, md),
                               \* the version it read (cur), its result (ret, data),
                               \* whether a collaborator raised in it (raised), the
                               \* versions reported for its url before (prior);
                               \* flip changes with every return
    issued                     \* << url, version >> pairs reported as newly stored

vars == << crawled_pages, document_changes, monitored_documentations,
           calls, last, issued >>

\* bounds of the model
NumTasks == 1
Tasks == 1..NumTasks

IdleCall == [pc |-> "idle", op |-> "none", url |-> <<>>, current_version |-> 0]
NoFx == [delete_fails |-> FALSE, delete_one_fails |-> {}, insert_fails |-> {}]

\* the failures batch_upsert_documents can meet for nb batches of one url
UpsertFx(url, nb) ==
    {[delete_fails |-> d[1], delete_one_fails |-> d[2], insert_fails |-> f] :
        d \in {<< FALSE, {} >>, << TRUE, {} >>, << TRUE, {url} >>},
        f \in SUBSET (1..nb)}

Init ==
    /\ crawled_pages = {}
    /\ document_changes = {}
    /\ monitored_documentations = <<>>
    /\ calls = [t \in Tasks |-> IdleCall]
    /\ last = [op |-> "none", url |-> <<>>, ret |-> Failure("none"),
               fetch |-> "none", md |-> <<>>, cur |-> 0, raised |-> FALSE,
               prior |-> {}, data |-> <<>>, flip |-> FALSE]
    /\ issued = {}

CurrentDb == [pages |-> crawled_pages, changes |-> document_changes]

IssuedFor(url) == {p[2] : p \in {q \in issued : q[1] = url}}

\* the record of a call that returns now
Returned(op, url, ret, fetch, md, cur, raised, data) ==
    [op |-> op, url |-> url, ret |-> ret, fetch |-> fetch, md |-> md, cur |-> cur,
     raised |-> raised, prior |-> IssuedFor(url),
     data |-> data, flip |-> ~last.flip]

StoredKinds == {"first_version_stored", "new_version_stored"}

\* ---------------------------------------------------------------------
\* check_and_update_document_changes (document_workflows.py)
\* ---------------------------------------------------------------------
\* up to the await of crawler.arun: read the latest version
CheckBegin(t, url) ==
    /\ calls[t].pc = "idle"
    /\ \E rpc_fails \in BOOLEAN :
          IF rpc_fails
          THEN /\ last' = Returned("check", url, Failure("exception"), "none",
                                    <<>>, 0, TRUE, <<>>)
               /\ UNCHANGED calls
          ELSE /\ calls' = [calls EXCEPT ![t] =
                              [pc |-> "fetching", op |-> "check", url |-> url,
                               current_version |->
                                   get_latest_version(crawled_pages, url)]]
               /\ UNCHANGED last
    /\ UNCHANGED << crawled_pages, document_changes, monitored_documentations, issued >>

\* the rest of the call, run when crawler.arun returns
Finish(t, chunker, fx) ==
    \E out \in {check_after_fetch(CurrentDb, calls[t].url, calls[t].current_version,
                                  chunker, fx)} :
        /\ crawled_pages' = out.pages
        /\ document_changes' = out.changes
        /\ calls' = [calls EXCEPT ![t] = IdleCall]
        /\ last' = Returned(calls[t].op, calls[t].url, out.ret, fx.fetch,
                             IF fx.fetch = "ok" THEN fx.md ELSE <<>>,
                             calls[t].current_version, out.raised, <<>>)
        /\ issued' = IF out.ret.kind \in StoredKinds
                     THEN issued \cup {<< calls[t].url, out.ret.version >>}
                     ELSE issued
        /\ UNCHANGED monitored_documentations

CheckFx(fetch, md, select_fails, upsert, compare_raises, compare, record_fails) ==
    [fetch |-> fetch, md |-> md, select_fails |-> select_fails, upsert |-> upsert,
     compare_raises |-> compare_raises, compare |-> compare,
     record_fails |-> record_fails]

\* the upsert of the change record is reached when the diff has an entry
RecordFailures(compare) ==
    IF \E i \in 1..Len(compare) : compare[i] # EmptyChange
    THEN BOOLEAN ELSE {FALSE}

\* what the collaborators do after the fetch returned markdown md to a call
\* that read current_version: the outcomes of the calls this branch of the
\* code makes (a failure of the chunk rows, or a diff with a change record)
ContentInputs(url, current_version, md) ==
    IF md = <<>>
    THEN {CheckFx("ok", md, FALSE, NoFx, FALSE, <<>>, FALSE)}
    ELSE IF current_version = 0
    THEN {CheckFx("ok", md, FALSE, upsert, FALSE, <<>>, FALSE) :
             upsert \in UpsertFx(url, 1)}
    ELSE {CheckFx("ok", md, TRUE, NoFx, FALSE, <<>>, FALSE)}
         \cup {CheckFx("ok", md, FALSE, upsert, TRUE, <<>>, FALSE) :
                   upsert \in UpsertFx(url, 1)}
         \cup {CheckFx("ok", md, FALSE, upsert, FALSE, <<>>, FALSE) :
                   upsert \in UpsertFx(url, 1)}
         \cup UNION {{CheckFx("ok", md, FALSE, NoFx, FALSE, compare, record_fails) :
                         record_fails \in RecordFailures(compare)} :
                      compare \in DiffOutputs}

CheckInputs(url, current_version) ==
    {CheckFx(fetch, <<>>, FALSE, NoFx, FALSE, <<>>, FALSE) : fetch \in {"raise", "fail"}}
    \cup UNION {ContentInputs(url, current_version, md) : md \in Docs \cup {<<>>}}

CheckFinish(t) ==
    /\ calls[t].pc = "fetching"
    /\ calls[t].op = "check"
    /\ \E fx \in CheckInputs(calls[t].url, calls[t].current_version) :
          Finish(t, "adaptive", fx)

CoreUrls == {U_page}

\* the task that takes the next call: the tasks are interchangeable, so it
\* is the first of those that are idle
IdleTasks == {t \in Tasks : calls[t].pc = "idle"}
NextTask == IF IdleTasks = {} THEN {} ELSE {SetMin(IdleTasks)}

\* calls of check_and_update_document_changes; a call may begin while the
\* fetch of another is awaited
Next ==
    \/ \E t \in NextTask, url \in CoreUrls : CheckBegin(t, url)
    \/ \E t \in Tasks : CheckFinish(t)

Spec == Init /\ [][Next]_vars

\* ---------------------------------------------------------------------
\* monitor_documentation (doc_fetcher_mcp.py)
\* ---------------------------------------------------------------------
CurrentStore ==
    [pages |-> crawled_pages, changes |-> document_changes,
     monitored |-> monitored_documentations]

\* what a tool leaves and returns; suspend: the call waits for the crawler
Outcome(pages, changes, monitored, ret, raised, data, suspend) ==
    [pages |-> pages, changes |-> changes, monitored |-> monitored, ret |-> ret,
     raised |-> raised, data |-> data, suspend |-> suspend]

\* a return that leaves the tables of st as they are
Keep(st, ret, raised) ==
    Outcome(st.pages, st.changes, st.monitored, ret, raised, <<>>, FALSE)

\* bounds of the OpenAPI specs
NumEndpoints == 20
Method_get == << "g", "e", "t" >>

\* a spec of n operations, "get" on the paths /a, /b, ...
SpecOf(n) ==
    [title       |-> << "T" >>,
     version     |-> << "1" >>,
     description |-> <<>>,
     operations  |-> [i \in 1..n |->
                         [path |-> << "/", LowerSeq[i] >>, method |-> Method_get]]]

OpenApiSpecs == {SpecOf(NumEndpoints)}

\* the chunks of every spec, computed once
OpenApiChunks == [sp \in OpenApiSpecs |-> openapi_spec_to_markdown_chunks(sp, CHUNK_SIZE)]

\* monitor_documentation from batch_upsert_documents on: the rows, the
\* change record of version 1 (fx.record_fails: its upsert raises), the
\* update of last_crawled_at (fx.update_fails: it raises)
StoreMonitored(st, url, rows, pages1, swallowed, fx) ==
    IF fx.record_fails
    THEN Outcome(pages1, st.changes, st.monitored, Failure("exception"), TRUE,
                 <<>>, FALSE)
    ELSE IF fx.update_fails
    THEN Outcome(pages1, UpsertChange(st.changes, InitialRecord(url, Len(rows))),
                 st.monitored, Failure("exception"), TRUE, <<>>, FALSE)
    ELSE Outcome(pages1, UpsertChange(st.changes, InitialRecord(url, Len(rows))),
                 MarkCrawled(st.monitored, url),
                 Result(TRUE, "stored", NoValue, NoValue, <<>>), swallowed,
                 << Len(rows) >>, FALSE)

IndexRows(st, url, rows, fx) ==
    StoreMonitored(st, url, rows,
        batch_upsert_documents(st.pages, rows, DefaultBatchSize, fx.upsert),
        UpsertRaised(st.pages, rows, DefaultBatchSize, fx.upsert), fx)

\* the branch of crawl_type "openapi"; fetch_openapi_spec returns None
\* unless fx.fetched, and fx.spec then
MonitorOpenApi(st, url, fx) ==
    IF ~fx.fetched THEN Keep(st, Failure("openapi_fetch_failed"), FALSE)
    ELSE IF MetadataRaises(url, OpenApiChunks[fx.spec])
    THEN Keep(st, Failure("exception"), TRUE)
    ELSE IndexRows(st, url, BuildRows(url, OpenApiChunks[fx.spec], 1), fx)

\* chunk_size of process_openapi_documentation when the caller gives none
ProcessChunkSize == 5000

\* the chunks process_openapi_documentation makes of every spec, computed once
ProcessChunks ==
    [sp \in OpenApiSpecs |-> openapi_spec_to_markdown_chunks(sp, ProcessChunkSize)]

\* url.split('/')[2] raises IndexError for the first chunk when the url has
\* fewer than two "/"
SourceRaises(url, chunks) ==
    chunks # <<>> /\ Cardinality({i \in 1..Len(url) : url[i] = "/"}) < 2

\* document_workflows.process_openapi_documentation: it raises ValueError
\* when the spec is not fetched, else it stores the chunks of the spec as
\* rows of the url and returns their number; it writes no monitored record
\* and no change record. The kind of a failed result names the exception the
\* call raises to its caller; raised is also set when batch_upsert_documents
\* caught an exception of the store
process_openapi_documentation(st, url, fx) ==
    IF ~fx.fetched THEN Keep(st, Failure("ValueError"), TRUE)
    ELSE IF SourceRaises(url, ProcessChunks[fx.spec])
    THEN Keep(st, Failure("IndexError"), TRUE)
    ELSE Outcome(batch_upsert_documents(st.pages,
                                        BuildRows(url, ProcessChunks[fx.spec], 1),
                                        DefaultBatchSize, fx.upsert),
                 st.changes, st.monitored,
                 Result(TRUE, "processed", NoValue, NoValue, <<>>),
                 UpsertRaised(st.pages, BuildRows(url, ProcessChunks[fx.spec], 1),
                              DefaultBatchSize, fx.upsert),
                 << Len(ProcessChunks[fx.spec]) >>, FALSE)

\* monitor_documentation after the monitored record is written (st);
\* fx.sitemap is what parse_sitemap does: "raise", or the urls it returns
MonitorByType(st, url, crawl_type, fx) ==
    IF crawl_type = "openapi" THEN MonitorOpenApi(st, url, fx)
    ELSE IF crawl_type = "sitemap" /\ fx.sitemap = "raise"
    THEN Keep(st, Failure("exception"), TRUE)
    ELSE IF crawl_type = "sitemap" /\ fx.sitemap = "empty"
    THEN Keep(st, Failure("no_urls_in_sitemap"), FALSE)
    ELSE Outcome(st.pages, st.changes, st.monitored, Failure("none"), FALSE,
                 <<>>, TRUE)

\* a tool that would write the monitored record only after the content
\* was stored
monitor_begin_without_record(st, url, fx) ==
    IF fx.select_fails THEN Keep(st, Failure("exception"), TRUE)
    ELSE IF AlreadyMonitored(MonitoredFor(st.monitored, url))
    THEN Keep(st, Failure("already_monitored"), FALSE)
    ELSE IF CrawlType(url) = ValueError THEN Keep(st, Failure("exception"), TRUE)
    ELSE IF fx.upsert_fails THEN Keep(st, Failure("exception"), TRUE)
    ELSE MonitorByType(st, url, CrawlType(url), fx)

\* monitor_documentation up to its first await
monitor_begin(st, url, fx) ==
    IF fx.select_fails THEN Keep(st, Failure("exception"), TRUE)
    ELSE IF AlreadyMonitored(MonitoredFor(st.monitored, url))
    THEN Keep(st, Failure("already_monitored"), FALSE)
    ELSE IF CrawlType(url) = ValueError THEN Keep(st, Failure("exception"), TRUE)
    ELSE IF fx.upsert_fails THEN Keep(st, Failure("exception"), TRUE)
    ELSE MonitorByType([st EXCEPT !.monitored =
                           UpsertMonitored(st.monitored, url, CrawlType(url))],
                       url, CrawlType(url), fx)

\* crawl_markdown_file: the document of the url when result.success and
\* result.markdown, under the url that was requested
crawl_markdown_file(url, result) ==
    IF result.success /\ result.markdown # <<>>
    THEN << [url |-> url, markdown |-> result.markdown] >>
    ELSE <<>>

\* the documents kept from the crawler's results: r.success and r.markdown
RECURSIVE KeepCrawled(_, _)
KeepCrawled(results, i) ==
    IF i > Len(results) THEN <<>>
    ELSE (IF results[i].success /\ results[i].markdown # <<>>
          THEN << [url |-> results[i].url, markdown |-> results[i].markdown] >>
          ELSE <<>>)
         \o KeepCrawled(results, i + 1)

\* crawl_results of monitor_documentation when the crawl returned: the one
\* result of crawler.arun(url) for a text file, the results of arun_many else
CrawledDocs(url, crawl_type, results) ==
    IF crawl_type = "text_file"
    THEN IF results = <<>> THEN <<>> ELSE crawl_markdown_file(url, results[1])
    ELSE KeepCrawled(results, 1)

\* the rows of all documents: chunks of smart_chunk_markdown numbered per
\* document
RECURSIVE RowsOfDocs(_, _)
RowsOfDocs(docs, i) ==
    IF i > Len(docs) THEN <<>>
    ELSE BuildRows(docs[i].url, ChunkWith("smart", docs[i].markdown), 1)
         \o RowsOfDocs(docs, i + 1)

\* monitor_documentation from "if not crawl_results" on; swallowed: the
\* crawl raised an exception that crawl_batch caught
IndexCrawled(st, url, crawl_results, swallowed, fx) ==
    IF crawl_results = <<>> THEN Keep(st, Failure("no_content"), swallowed)
    ELSE IF \E i \in 1..Len(crawl_results) :
                MetadataRaises(crawl_results[i].url,
                               ChunkWith("smart", crawl_results[i].markdown))
    THEN Keep(st, Failure("exception"), TRUE)
    ELSE IndexRows(st, url, RowsOfDocs(crawl_results, 1), fx)

\* monitor_documentation from the return of the crawl on; fx.crawl is
\* "raise" or "ok" with the crawler's results fx.results (the one result of
\* crawler.arun(url) for a text file). crawl_batch swallows the exception
\* and returns []; crawl_recursive_internal_links raises the ValueError of
\* urldefrag(result.url)
monitor_after_crawl(st, url, crawl_type, fx) ==
    IF fx.crawl = "raise"
    THEN IF crawl_type = "sitemap" THEN IndexCrawled(st, url, <<>>, TRUE, fx)
         ELSE Keep(st, Failure("exception"), TRUE)
    ELSE IF /\ crawl_type = "webpage"
            /\ \E i \in 1..Len(fx.results) : urldefrag_raises(fx.results[i].url)
    THEN Keep(st, Failure("exception"), TRUE)
    ELSE IndexCrawled(st, url, CrawledDocs(url, crawl_type, fx.results), FALSE, fx)

\* delete_documentation_from_monitoring
delete_documentation_from_monitoring(st, url, fx) ==
    IF fx.select_fails THEN Keep(st, Failure("exception"), TRUE)
    ELSE IF MonitoredFor(st.monitored, url) = <<>>
    THEN Keep(st, Failure("not_found"), FALSE)
    ELSE IF fx.update_fails THEN Keep(st, Failure("exception"), TRUE)
    ELSE Outcome(st.pages, st.changes, MarkDeleted(st.monitored, url),
                 Result(TRUE, "removed", NoValue, NoValue, <<>>), FALSE, <<>>, FALSE)

\* list_monitored_documentations
list_monitored_documentations(st, fx) ==
    IF fx.select_fails THEN Keep(st, Failure("exception"), TRUE)
    ELSE Outcome(st.pages, st.changes, st.monitored,
                 Result(TRUE, "listed", NoValue, NoValue, <<>>), FALSE,
                 ActiveMonitored(st.monitored), FALSE)

\* order("version", desc=True)
RECURSIVE OrderByVersionDesc(_)
OrderByVersionDesc(records) ==
    IF records = {} THEN <<>>
    ELSE LET r == CHOOSE x \in records : \A y \in records : x.version >= y.version
         IN  << r >> \o OrderByVersionDesc(records \ {r})

\* get_document_history
get_document_history(st, url, fx) ==
    IF fx.select_fails THEN Keep(st, Failure("exception"), TRUE)
    ELSE Outcome(st.pages, st.changes, st.monitored,
                 Result(TRUE, "history", NoValue, NoValue, <<>>), FALSE,
                 OrderByVersionDesc({c \in st.changes : c.url = url}), FALSE)

\* ---------------------------------------------------------------------
\* The tools as steps
\* ---------------------------------------------------------------------
\* what the crawler returns for a monitored url
RawResults(url) ==
    {<<>>,
     << [url |-> url, success |-> FALSE, markdown |-> <<>>] >>,
     << [url |-> url, success |-> TRUE, markdown |-> D_ab],
        [url |-> U_sub, success |-> TRUE, markdown |-> D_ab_nl] >>}

\* no collaborator fails
BaseFx ==
    [select_fails |-> FALSE, upsert_fails |-> FALSE, fetched |-> TRUE,
     spec |-> SpecOf(NumEndpoints), sitemap |-> "ok", upsert |-> NoFx,
     record_fails |-> FALSE, update_fails |-> FALSE, crawl |-> "ok",
     results |-> <<>>]

\* the writes after the chunk rows: both succeed, or one raises
LateFailures == {<< FALSE, FALSE >>, << TRUE, FALSE >>, << FALSE, TRUE >>}

\* the failures of the insert batches of an OpenAPI spec
BatchFailures(sp) == SUBSET (1..NumBatches(Len(OpenApiChunks[sp]), DefaultBatchSize))

MonitorBeginInputs(url) ==
    {[BaseFx EXCEPT !.select_fails = TRUE], [BaseFx EXCEPT !.upsert_fails = TRUE]}
    \cup (IF CrawlType(url) = "openapi"
          THEN {[BaseFx EXCEPT !.fetched = FALSE]}
               \cup UNION {{[BaseFx EXCEPT !.spec = sp,
                                    !.upsert = [NoFx EXCEPT !.insert_fails = b]] :
                               b \in BatchFailures(sp)}
                           \cup {[BaseFx EXCEPT !.spec = sp,
                                                !.record_fails = late[1],
                                                !.update_fails = late[2]] :
                                    late \in LateFailures} :
                            sp \in OpenApiSpecs}
          ELSE IF CrawlType(url) = "sitemap"
          THEN {[BaseFx EXCEPT !.sitemap = m] : m \in {"raise", "empty", "ok"}}
          ELSE {BaseFx})

\* the store is written only when the crawl kept a document; a failure of
\* the chunk rows or one of the later writes
MonitorFinishInputs(url) ==
    {[BaseFx EXCEPT !.crawl = "raise"]}
    \cup UNION {IF CrawledDocs(url, CrawlType(url), rs) = <<>>
                THEN {[BaseFx EXCEPT !.results = rs]}
                ELSE {[BaseFx EXCEPT !.results = rs, !.upsert = u] :
                         u \in UpsertFx(url, 1)}
                     \cup {[BaseFx EXCEPT !.results = rs,
                                          !.record_fails = late[1],
                                          !.update_fails = late[2]] :
                              late \in LateFailures} :
                rs \in RawResults(url)}

SelectInputs == {BaseFx, [BaseFx EXCEPT !.select_fails = TRUE]}
DeleteInputs == SelectInputs \cup {[BaseFx EXCEPT !.update_fails = TRUE]}

\* the tables and the record of the call after a step of a tool
Apply(t, op, url, out, waiting) ==
    /\ crawled_pages' = out.pages
    /\ document_changes' = out.changes
    /\ monitored_documentations' = out.monitored
    /\ IF out.suspend
       THEN /\ calls' = [calls EXCEPT ![t] = waiting]
            /\ UNCHANGED last
       ELSE /\ calls' = [calls EXCEPT ![t] = IdleCall]
            /\ last' = Returned(op, url, out.ret, "none", <<>>, 0, out.raised,
                                out.data)
    /\ UNCHANGED issued

MonitorBegin(t, url) ==
    /\ calls[t].pc = "idle"
    /\ \E fx \in MonitorBeginInputs(url) :
          Apply(t, "monitor", url, monitor_begin(CurrentStore, url, fx),
                [pc |-> "crawling", op |-> "monitor", url |-> url,
                 current_version |-> 0])

MonitorFinish(t) ==
    /\ calls[t].pc = "crawling"
    /\ \E fx \in MonitorFinishInputs(calls[t].url) :
          Apply(t, "monitor", calls[t].url,
                monitor_after_crawl(CurrentStore, calls[t].url,
                                    CrawlType(calls[t].url), fx),
                IdleCall)

DeleteMonitoring(t, url) ==
    /\ calls[t].pc = "idle"
    /\ \E fx \in DeleteInputs :
          Apply(t, "delete", url,
                delete_documentation_from_monitoring(CurrentStore, url, fx), IdleCall)

\* the spec is not fetched, or it is and the store may fail in the delete
\* and in each insert batch
ProcessOpenApiInputs(url) ==
    {[BaseFx EXCEPT !.fetched = FALSE]}
    \cup UNION {{[BaseFx EXCEPT !.spec = sp, !.upsert = u] :
                    u \in UpsertFx(url, NumBatches(Len(ProcessChunks[sp]),
                                                   DefaultBatchSize))} :
                sp \in OpenApiSpecs}

\* a call of process_openapi_documentation; the function awaits nothing
ProcessOpenApi(t, url) ==
    /\ calls[t].pc = "idle"
    /\ \E fx \in ProcessOpenApiInputs(url) :
          Apply(t, "process_openapi", url,
                process_openapi_documentation(CurrentStore, url, fx), IdleCall)

ListMonitored(t) ==
    /\ calls[t].pc = "idle"
    /\ \E fx \in SelectInputs :
          Apply(t, "list", <<>>, list_monitored_documentations(CurrentStore, fx),
                IdleCall)

DocumentHistory(t, url) ==
    /\ calls[t].pc = "idle"
    /\ \E fx \in SelectInputs :
          Apply(t, "history", url, get_document_history(CurrentStore, url, fx),
                IdleCall)

ToolUrls == {U_page, U_api}

\* the tools that read or write monitored_documentations, and
\* get_document_history, called for a page and for an OpenAPI spec; a tool
\* may be called while the crawl of a monitor_documentation call is awaited
NextRegistry ==
    \/ \E t \in NextTask, url \in ToolUrls : MonitorBegin(t, url)
    \/ \E t \in Tasks : MonitorFinish(t)
    \/ \E t \in NextTask, url \in ToolUrls : DeleteMonitoring(t, url)
    \/ \E t \in NextTask : ListMonitored(t)
    \/ \E t \in NextTask, url \in ToolUrls : DocumentHistory(t, url)

SpecRegistry == Init /\ [][NextRegistry]_vars

\* ---------------------------------------------------------------------
\* Properties of check_and_update_document_changes
\* ---------------------------------------------------------------------
\* a call of check_and_update_document_changes returns in this step
CheckReturns ==
    \E t \in Tasks :
        /\ calls[t].pc = "fetching" /\ calls[t].op = "check"
        /\ calls'[t].pc = "idle"

\* C1, as claimed: a call that detects divergence stores the content under
\* the version it read plus one, and that number is greater than every
\* version reported for the url before, so no number is assigned twice.
C1_VersionsIncreaseWithoutReuse ==
    (last.op = "check" /\ last.ret.kind = "new_version_stored")
        => /\ last.ret.version = last.cur + 1
           /\ \A v \in last.prior : v < last.ret.version

\* C2, as claimed: when a call has stored a version and the next call of
\* the same url fetches the same content (content without surrounding
\* whitespace, no collaborator failing), the second call returns
\* changes_found = 0 and leaves the chunk rows and the change records alone.
C2_UnchangedContentIsNoOp ==
    [][(/\ CheckReturns
        /\ last.op = "check" /\ last.ret.kind \in StoredKinds /\ ~last.raised
        /\ last'.url = last.url /\ last'.fetch = "ok" /\ last'.md = last.md
        /\ Strip(last.md) = last.md
        /\ ~last'.raised)
       => (/\ last'.ret.success
           /\ last'.ret.changes_found = 0
           /\ crawled_pages' = crawled_pages
           /\ document_changes' = document_changes)]_vars

\* C3, as claimed: a call in which a collaborator raised returns
\* success false and reports no version as stored.
C3_FailureIsReported ==
    (last.op = "check" /\ last.raised)
        => (~last.ret.success /\ last.ret.version = NoValue)

\* the change record of one version of one url
RecordsOf(url, version) ==
    {c \in document_changes : c.url = url /\ c.version = version}

\* the rows the store holds for a url
RowsOf(url) == {r \in crawled_pages : r.url = url}

\* C4, as claimed: a call that found no stored version and fetched content
\* returns version 1 and has written the change record of version 1 with
\* change_type added and change_impact high.
C4_FirstVersionEmitsRecord ==
    (last.op = "check" /\ last.cur = 0 /\ last.fetch = "ok" /\ last.md # <<>>)
        => /\ last.ret.success /\ last.ret.version = 1
           /\ \E c \in RecordsOf(last.url, 1) :
                 c.change_type = "added" /\ c.change_impact = "high"

DeprecatedWord == << "d", "e", "p", "r", "e", "c", "a", "t", "e", "d" >>
MentionsDeprecated(text) == Contains(Lower(text), DeprecatedWord)

ReturnedEntries == {last.ret.changes[i] : i \in 1..Len(last.ret.changes)}
RecordedEntries ==
    UNION {{c.changes[i] : i \in 1..Len(c.changes)} : c \in document_changes}

\* C5, as claimed: an entry whose new content mentions "deprecated" has
\* breaking_changes true and impact high, returned or persisted, and the
\* persisted record that holds it has change_impact high.
C5_DeprecatedMakesImpactHigh ==
    /\ \A e \in ReturnedEntries \cup RecordedEntries :
          MentionsDeprecated(e.details)
              => (e.analysis.breaking_changes /\ e.impact = "high")
    /\ \A c \in document_changes :
          (\E i \in 1..Len(c.changes) : MentionsDeprecated(c.changes[i].details))
              => c.change_impact = "high"

\* C6: a call whose fetch reports failure or returns empty content returns
\* success false and leaves the chunk rows, the change records and the
\* url's latest version as they were.
C6_FailedFetchWritesNothing ==
    [][(/\ CheckReturns
        /\ last'.fetch = "fail" \/ (last'.fetch = "ok" /\ last'.md = <<>>))
       => (/\ ~last'.ret.success
           /\ crawled_pages' = crawled_pages
           /\ document_changes' = document_changes
           /\ get_latest_version(crawled_pages', last'.url)
                = get_latest_version(crawled_pages, last'.url))]_vars

\* C6: a fetch returned empty content for a url that has stored rows
C6_Witness ==
    /\ last.op = "check" /\ last.fetch = "ok" /\ last.md = <<>>
    /\ last.cur > 0
    /\ RowsOf(last.url) # {}

\* ---------------------------------------------------------------------
\* Properties of the tools
\* ---------------------------------------------------------------------
\* C7, as claimed: a tool in which a collaborator call raised returns
\* success false.
C7_RaiseMeansFailure == last.raised => ~last.ret.success

\* the chunk numbers stored for one url under one version
ChunkNumbers(url, version) ==
    {r.chunk_number : r \in {x \in crawled_pages : x.url = url /\ x.version = version}}

\* C8, as claimed: in every state the chunk numbers stored for a url under
\* a version are 0 .. n-1 without a gap.
C8_ChunkIndexesContiguous ==
    \A r \in crawled_pages :
        ChunkNumbers(r.url, r.version)
            = 0..(Cardinality(ChunkNumbers(r.url, r.version)) - 1)

MonitoredUrls(rows) == {rows[i].url : i \in 1..Len(rows)}

\* a call of the tool op returns in this step
ToolReturns(op) == last'.flip # last.flip /\ last'.op = op

\* C9: no step removes a monitored row; a successful
\* delete_documentation_from_monitoring finds the url's row and changes
\* only its status, to deleted; a successful list_monitored_documentations
\* returns the rows whose status is active, each once, and no other.
C9_SoftDelete ==
    [][/\ MonitoredUrls(monitored_documentations)
              \subseteq MonitoredUrls(monitored_documentations')
       /\ (ToolReturns("delete") /\ last'.ret.success)
              => /\ last'.url \in MonitoredUrls(monitored_documentations)
                 /\ monitored_documentations' =
                        [i \in 1..Len(monitored_documentations) |->
                            IF monitored_documentations[i].url = last'.url
                            THEN [monitored_documentations[i]
                                      EXCEPT !.status = "deleted"]
                            ELSE monitored_documentations[i]]
       /\ (ToolReturns("list") /\ last'.ret.success)
              => /\ {last'.data[i] : i \in 1..Len(last'.data)}
                        = {monitored_documentations[i] :
                              i \in {j \in 1..Len(monitored_documentations) :
                                        monitored_documentations[j].status = "active"}}
                 /\ \A i, j \in 1..Len(last'.data) :
                        last'.data[i] = last'.data[j] => i = j]_vars

\* C9: a list returned active rows while a deleted row is kept
C9_Witness ==
    /\ last.op = "list" /\ last.ret.success
    /\ last.data # <<>>
    /\ \E i \in 1..Len(monitored_documentations) :
          /\ monitored_documentations[i].status = "deleted"
          /\ \A j \in 1..Len(last.data) :
                last.data[j].url # monitored_documentations[i].url

\* C10: monitor_documentation called, no call on it pending, on a url with
\* an active monitored record returns success false and leaves the three
\* tables as they are and waits for no crawl; the error is 'already
\* monitored' unless the lookup itself raised.
C10_AlreadyMonitoredChangesNothing ==
    [][(/\ ToolReturns("monitor")
        /\ \A t \in Tasks : calls[t].pc = "idle" \/ calls[t].url # last'.url
        /\ \E i \in 1..Len(monitored_documentations) :
              /\ monitored_documentations[i].url = last'.url
              /\ monitored_documentations[i].status = "active")
       => (/\ ~last'.ret.success
           /\ ~last'.raised => last'.ret.kind = "already_monitored"
           /\ UNCHANGED << crawled_pages, document_changes,
                           monitored_documentations, calls >>)]_vars

\* C10: 'already monitored' was returned for a url whose chunks are stored
C10_Witness ==
    /\ last.op = "monitor" /\ last.ret.kind = "already_monitored"
    /\ \E r \in crawled_pages : r.url = last.url
    /\ \E i \in 1..Len(monitored_documentations) :
          /\ monitored_documentations[i].url = last.url
          /\ monitored_documentations[i].status = "active"

\* a < b for Python strings
StrLess(a, b) ==
    \E k \in 1..Len(b) :
        /\ \A j \in 1..(k - 1) : j <= Len(a) /\ a[j] = b[j]
        /\ \/ k > Len(a)
           \/ k <= Len(a) /\ Ord(a[k]) < Ord(b[k])

\* sorted(s) of a set of strings
RECURSIVE Sorted(_)
Sorted(s) ==
    IF s = {} THEN <<>>
    ELSE LET m == CHOOSE x \in s : \A y \in s \ {x} : StrLess(x, y)
         IN  << m >> \o Sorted(s \ {m})

\* sorted(set(item["url"] for item in result.data if item.get("url")))
unique_urls(data) == Sorted({r.url : r \in {x \in data : x.url # <<>>}})

\* a loop that ends at the first helper that fails
CheckLoopStopping(pages, urls, k, all_results, raised, rpc_fails) ==
    IF k > Len(urls) \/ urls[k] \in rpc_fails
    THEN [done |-> TRUE, k |-> k, current_version |-> 0, results |-> all_results,
          raised |-> raised \/ k <= Len(urls)]
    ELSE [done |-> FALSE, k |-> k,
          current_version |-> get_latest_version(pages, urls[k]),
          results |-> all_results, raised |-> raised]

\* the loop over unique_urls from entry k on, up to the next await of
\* crawler.arun or the end of the list: the helper of a url whose
\* get_latest_version raises (rpc_fails) returns its failure at once;
\* raised tells whether a helper of the call has caught an exception so far
RECURSIVE CheckLoop(_, _, _, _, _, _)
CheckLoop(pages, urls, k, all_results, raised, rpc_fails) ==
    IF k > Len(urls)
    THEN [done |-> TRUE, k |-> k, current_version |-> 0, results |-> all_results,
          raised |-> raised]
    ELSE IF urls[k] \in rpc_fails
    THEN CheckLoop(pages, urls, k + 1,
                   Append(all_results, [url |-> urls[k], ret |-> Failure("exception")]),
                   TRUE, rpc_fails)
    ELSE [done |-> FALSE, k |-> k,
          current_version |-> get_latest_version(pages, urls[k]),
          results |-> all_results, raised |-> raised]

\* summary = {"success": True, "total_urls_checked": len(unique_urls), ...}
Summary(urls, all_results, selected) ==
    [total_urls_checked |-> Len(urls), results |-> all_results,
     selected |-> selected]

\* the call goes on after the loop advanced: it waits for the crawl of
\* urls[k] or returns the summary, whatever its helpers caught
ContinueAll(t, urls, selected, loop) ==
    IF loop.done
    THEN /\ calls' = [calls EXCEPT ![t] = IdleCall]
         /\ last' = Returned("check_all", <<>>,
                             Result(TRUE, "all_checked", NoValue, NoValue, <<>>),
                             "none", <<>>, 0, loop.raised,
                             Summary(urls, loop.results, selected))
    ELSE /\ calls' = [calls EXCEPT ![t] =
                        [pc |-> "checking_all", op |-> "check_all",
                         url |-> urls[loop.k],
                         current_version |-> loop.current_version,
                         urls |-> urls, k |-> loop.k, results |-> loop.results,
                         selected |-> selected, raised |-> loop.raised]]
         /\ UNCHANGED last

\* check_all_document_changes up to the first await
CheckAllBegin(t) ==
    /\ calls[t].pc = "idle"
    /\ \E select_fails \in BOOLEAN :
          IF select_fails
          THEN /\ last' = Returned("check_all", <<>>, Failure("exception"), "none",
                                    <<>>, 0, TRUE, Summary(<<>>, <<>>, {}))
               /\ UNCHANGED calls
          ELSE IF crawled_pages = {}
          THEN /\ last' = Returned("check_all", <<>>, Failure("no_urls_found"),
                                    "none", <<>>, 0, FALSE, Summary(<<>>, <<>>, {}))
               /\ UNCHANGED calls
          ELSE \E urls \in {unique_urls(crawled_pages)} :
                  \E rpc_fails \in SUBSET {urls[i] : i \in 1..Len(urls)} :
                     ContinueAll(t, urls, {r.url : r \in crawled_pages},
                                 CheckLoop(crawled_pages, urls, 1, <<>>, FALSE,
                                           rpc_fails))
    /\ UNCHANGED << crawled_pages, document_changes, monitored_documentations, issued >>

\* what the collaborators do in the helper of one url after its fetch
CheckAllInputs(url, current_version) ==
    {CheckFx(fetch, <<>>, FALSE, NoFx, FALSE, <<>>, FALSE) : fetch \in {"raise", "fail"}}
    \cup UNION {ContentInputs(url, current_version, md) : md \in {D_ab, D_ab_nl}}

\* crawler.arun returns for urls[k]: the rest of the helper runs, its result
\* is appended, and the loop goes on; Inputs gives what the collaborators do
CheckAllStepWith(t, Inputs(_, _)) ==
    /\ calls[t].pc = "checking_all"
    /\ \E fx \in Inputs(calls[t].url, calls[t].current_version) :
       \E out \in {check_after_fetch(CurrentDb, calls[t].url,
                                     calls[t].current_version, "smart", fx)} :
       \E rpc_fails \in SUBSET {calls[t].urls[i] :
                                   i \in (calls[t].k + 1)..Len(calls[t].urls)} :
          /\ crawled_pages' = out.pages
          /\ document_changes' = out.changes
          /\ issued' = IF out.ret.kind \in StoredKinds
                       THEN issued \cup {<< calls[t].url, out.ret.version >>}
                       ELSE issued
          /\ ContinueAll(t, calls[t].urls, calls[t].selected,
                         CheckLoop(out.pages, calls[t].urls, calls[t].k + 1,
                                   Append(calls[t].results,
                                          [url |-> calls[t].url, ret |-> out.ret]),
                                   calls[t].raised \/ out.raised, rpc_fails))
    /\ UNCHANGED monitored_documentations

CheckAllStep(t) == CheckAllStepWith(t, CheckAllInputs)

\* the rows the first storing of a document under a url left
FirstRows(url, chunks) ==
    {StoredRow(BuildRows(url, chunks, 1)[i]) : i \in 1..Len(chunks)}

AllUrls == {U_api, U_page, U_sub}

\* the store holds the documents of some of the urls; that of U_page has
\* two chunks
InitAll ==
    /\ \E us \in SUBSET AllUrls :
          crawled_pages =
              UNION {FirstRows(u, IF u = U_page THEN AdaptiveChunks[D_two]
                                  ELSE SmartChunks[D_ab]) : u \in us}
    /\ document_changes = {}
    /\ monitored_documentations = <<>>
    /\ calls = [t \in Tasks |-> IdleCall]
    /\ last = [op |-> "none", url |-> <<>>, ret |-> Failure("none"),
               fetch |-> "none", md |-> <<>>, cur |-> 0, raised |-> FALSE,
               prior |-> {}, data |-> <<>>, flip |-> FALSE]
    /\ issued = {}

\* one call of the tool, made by the first task
NextAll ==
    \/ \E t \in {SetMin(Tasks)} : last.op = "none" /\ CheckAllBegin(t)
    \/ \E t \in Tasks : CheckAllStep(t)

SpecAll == InitAll /\ [][NextAll]_vars

\* C11: a returned check_all_document_changes call whose select did not
\* raise reports success exactly when its select found a url; its results then hold one entry for every
\* distinct url the select found, in ascending url order, failed checks
\* included, and total_urls_checked is the number of entries.
C11_EveryUrlCheckedOnceInOrder ==
    last.op = "check_all" /\ last.ret.kind # "exception" =>
        LET rs == last.data.results
        IN  /\ last.ret.success <=> last.data.selected # {}
            /\ last.ret.success =>
                  /\ {rs[i].url : i \in 1..Len(rs)} = last.data.selected
                  /\ \A i, j \in 1..Len(rs) : i < j => StrLess(rs[i].url, rs[j].url)
                  /\ last.data.total_urls_checked = Len(rs)

\* C11: a call returned the results of three urls, the first check failed
\* and a later one stored a new version
C11_Witness ==
    /\ last.op = "check_all" /\ last.ret.success
    /\ Len(last.data.results) = 3
    /\ ~last.data.results[1].ret.success
    /\ \E i \in 2..3 : last.data.results[i].ret.kind = "new_version_stored"

\* ---------------------------------------------------------------------
\* Search (search.py)
\* ---------------------------------------------------------------------
\* similarities and scores are counted in hundredths
KeywordSimilarity == 50
KeywordLimit == 10
RerankCandidates == 3
ExactMatchBoost == 10
HeaderBoost == 15
SectionBoost == 10

\* the value None passed as the query
NoneQuery == << "None" >>

\* str.split(): the words between runs of whitespace, from position i on
RECURSIVE WordsFrom(_, _)
WordsFrom(s, i) ==
    IF SkipSpaces(s, i) > Len(s) THEN <<>>
    ELSE << SubSeq(s, SkipSpaces(s, i), FirstOf(s, Whitespace, SkipSpaces(s, i)) - 1) >>
         \o WordsFrom(s, FirstOf(s, Whitespace, SkipSpaces(s, i)))

\* query.lower().split()
search_terms(query) == WordsFrom(Lower(query), 1)

\* set(query.lower().split())
query_terms(query) == {search_terms(query)[i] : i \in 1..Len(search_terms(query))}

\* the rerank_score of a row that was not reranked: the key is absent
NoScore == <<>>

\* a row as the store returns it, its similarity in hundredths; a row that
\* was not reranked has no rerank_score
SearchRow(url, chunk_number, content, similarity, headers, section) ==
    [url |-> url, chunk_number |-> chunk_number, content |-> content,
     similarity |-> similarity, headers |-> headers, section |-> section,
     rerank_score |-> NoScore]

\* a vector function that ignores match_count
match_all_crawled_pages(rows, match_count) == rows

\* the SQL function match_crawled_pages: the rows in order of distance,
\* LIMIT match_count
match_crawled_pages(rows, match_count) == Slice(rows, 0, match_count)

\* semantic_search_documents: create_single_embedding returns a zero vector
\* when the embedding call fails; result.data or [], [] when the rpc raises
semantic_search_documents(match_count, fx) ==
    IF fx.basic_raises THEN <<>>
    ELSE match_crawled_pages(fx.basic_rows, match_count)

\* an enhanced search that gives up when its rpc raises
enhanced_vector_search_only(match_count, fx) ==
    IF fx.enhanced_raises THEN <<>> ELSE fx.enhanced_rows

\* _enhanced_vector_search: the rows of rpc enhanced_match_crawled_pages, and
\* those of semantic_search_documents when it raises
enhanced_vector_search(match_count, fx) ==
    IF fx.enhanced_raises
    THEN semantic_search_documents(match_count, fx)
    ELSE fx.enhanced_rows

\* _keyword_search: no search without a term; every row found gets the
\* fixed similarity; [] when the store raises
keyword_search(query, fx) ==
    IF search_terms(query) = <<>> \/ fx.keyword_raises THEN <<>>
    ELSE Slice([i \in 1..Len(fx.keyword_rows) |->
                   [fx.keyword_rows[i] EXCEPT !.similarity = KeywordSimilarity]],
               0, KeywordLimit)

\* the loop body of _combine_search_results: a row is appended unless its
\* (url, chunk_number) was seen
RECURSIVE AppendUnseen(_, _, _)
AppendUnseen(results, i, seen_chunks) ==
    IF i > Len(results) THEN <<>>
    ELSE IF << results[i].url, results[i].chunk_number >> \in seen_chunks
    THEN AppendUnseen(results, i + 1, seen_chunks)
    ELSE << results[i] >>
         \o AppendUnseen(results, i + 1,
                         seen_chunks \cup {<< results[i].url, results[i].chunk_number >>})

\* a combination that takes the keyword results first
combine_keyword_first(vector_results, keyword_results) ==
    AppendUnseen(keyword_results \o vector_results, 1, {})

\* _combine_search_results: vector results first, then keyword results
combine_search_results(vector_results, keyword_results) ==
    AppendUnseen(vector_results \o keyword_results, 1, {})

\* ---------------------------------------------------------------------
\* The floats of the scores (IEEE 754 binary64, round to nearest even)
\* ---------------------------------------------------------------------
\* a float x, 0 <= x < 128, is the integer x * 2^60 written in limbs of 15
\* bits, the least significant first: x = (sum of f[i] * 2^(15 * (i - 1))) / 2^60.
\* Every float from 2^-7 on has its 53 significant bits above 2^-60.
LimbBase == 2^15

\* 0.0
ZeroFloat == << 0, 0, 0, 0, 0 >>

\* 1.0 = 2^60 / 2^60
OneFloat == << 0, 0, 0, 0, 1 >>

\* the limbs of a sum of limbs, carries propagated from limb i on
RECURSIVE Carry(_, _, _)
Carry(x, i, c) ==
    IF i > Len(x) THEN <<>>
    ELSE << (x[i] + c) % LimbBase >> \o Carry(x, i + 1, (x[i] + c) \div LimbBase)

\* the exact sum a + b and the exact product a * k, k < 2^15
LimbsAdd(a, b) == Carry([i \in 1..Len(a) |-> a[i] + b[i]], 1, 0)
LimbsTimes(a, k) == Carry([i \in 1..Len(a) |-> a[i] * k], 1, 0)

\* the limbs 1..i of the quotient a / d, d < 2^15, when the limbs above i
\* left the remainder r
RECURSIVE LimbsQuotient(_, _, _, _)
LimbsQuotient(a, d, i, r) ==
    IF i = 0 THEN <<>>
    ELSE Append(LimbsQuotient(a, d, i - 1, (r * LimbBase + a[i]) % d),
                (r * LimbBase + a[i]) \div d)

\* the remainder of a / d
RECURSIVE LimbsRemainder(_, _, _, _)
LimbsRemainder(a, d, i, r) ==
    IF i = 0 THEN r
    ELSE LimbsRemainder(a, d, i - 1, (r * LimbBase + a[i]) % d)

RECURSIVE BitLen(_)
BitLen(n) == IF n = 0 THEN 0 ELSE 1 + BitLen(n \div 2)

RECURSIVE TopLimb(_, _)
TopLimb(a, i) ==
    IF i = 0 THEN 0 ELSE IF a[i] # 0 THEN i ELSE TopLimb(a, i - 1)

\* the number of bits of the integer a
BitLength(a) ==
    IF TopLimb(a, Len(a)) = 0 THEN 0
    ELSE 15 * (TopLimb(a, Len(a)) - 1) + BitLen(a[TopLimb(a, Len(a))])

\* a with its s lowest bits rounded off, 1 <= s < 15: up when they are above
\* one half, or are one half and something was cut off below them (sticky)
\* or the bit above them is set
RoundOff(a, s, sticky) ==
    Carry([a EXCEPT ![1] =
              a[1] - (a[1] % 2^s)
              + (IF \/ a[1] % 2^s > 2^(s - 1)
                    \/ /\ a[1] % 2^s = 2^(s - 1)
                       /\ (sticky \/ (a[1] \div 2^s) % 2 = 1)
                 THEN 2^s ELSE 0)],
          1, 0)

\* the float nearest to the number a (+ a part below 2^-60 when sticky)
RoundFloat(a, sticky) ==
    IF BitLength(a) <= 53 THEN a ELSE RoundOff(a, BitLength(a) - 53, sticky)

\* the float of the decimal literal h / 100: 0.5 for 50, 0.1 for 10
FloatOf(h) ==
    RoundFloat(LimbsQuotient(LimbsTimes(OneFloat, h), 100, Len(OneFloat), 0),
               LimbsRemainder(LimbsTimes(OneFloat, h), 100, Len(OneFloat), 0) # 0)

\* a + b of two floats
FloatAdd(a, b) == RoundFloat(LimbsAdd(a, b), FALSE)

\* k * a of an int k and a float a
FloatTimes(k, a) == RoundFloat(LimbsTimes(a, k), FALSE)

\* a < b of two floats
RECURSIVE LimbsLess(_, _, _)
LimbsLess(a, b, i) ==
    IF i = 0 THEN FALSE
    ELSE IF a[i] # b[i] THEN a[i] < b[i]
    ELSE LimbsLess(a, b, i - 1)

FloatLess(a, b) == LimbsLess(a, b, Len(a))

\* exact_matches * 0.1 for the terms found in the lowered content
exact_match_boost(terms, result) ==
    FloatTimes(Cardinality({t \in terms : Contains(Lower(result.content), t)}),
               FloatOf(ExactMatchBoost))

\* 0.15 if any(term in headers.lower() for term in query_terms) else 0
header_boost(terms, result) ==
    IF \E t \in terms : Contains(Lower(result.headers), t)
    THEN FloatOf(HeaderBoost) ELSE ZeroFloat

\* 0.1 if metadata.get('section') in ['info', 'endpoint'] else 0
section_boost(result) ==
    IF result.section \in {"info", "endpoint"} THEN FloatOf(SectionBoost) ELSE ZeroFloat

\* a score without the boost for headers
final_score_without_headers(terms, result) ==
    FloatAdd(FloatAdd(FloatOf(result.similarity), exact_match_boost(terms, result)),
             section_boost(result))

\* final_score = base_score + exact_match_boost + header_boost + section_boost,
\* added from the left; base_score is the float of the row's similarity,
\* which the rows hold in hundredths
final_score(terms, result) ==
    FloatAdd(FloatAdd(FloatAdd(FloatOf(result.similarity),
                               exact_match_boost(terms, result)),
                      header_boost(terms, result)),
             section_boost(result))

\* sorted(results, key=rerank_score, reverse=True): rows of equal score keep
\* their order
RECURSIVE SortedByScore(_)
SortedByScore(results) ==
    IF results = <<>> THEN <<>>
    ELSE LET i == CHOOSE k \in 1..Len(results) :
                     /\ \A j \in 1..Len(results) :
                           ~FloatLess(results[k].rerank_score, results[j].rerank_score)
                     /\ \A j \in 1..(k - 1) :
                           FloatLess(results[j].rerank_score, results[k].rerank_score)
         IN  << results[i] >>
             \o SortedByScore(SelectIdx(results, (1..Len(results)) \ {i}, 1))

\* _rerank_results for rows that have a similarity and metadata
rerank_results(query, results, top_k) ==
    Slice(SortedByScore([i \in 1..Len(results) |->
                            [results[i] EXCEPT !.rerank_score =
                                final_score(query_terms(query), results[i])]]),
          0, top_k)

\* steps 4 and 5 of improved_semantic_search
CombineAndRank(query, match_count, enable_reranking, combined_results) ==
    IF enable_reranking /\ Len(combined_results) > match_count
    THEN rerank_results(query, combined_results, match_count)
    ELSE Slice(combined_results, 0, match_count)

\* improved_semantic_search from the vector results on
AfterVectorSearch(query, match_count, enable_reranking, vector_results, fx) ==
    IF vector_results = <<>> THEN <<>>
    ELSE CombineAndRank(query, match_count, enable_reranking,
                        combine_search_results(vector_results,
                                               keyword_search(query, fx)))

\* improved_semantic_search: _preprocess_query raises for a query that is no
\* string, and the except branch runs semantic_search_documents
improved_semantic_search(query, match_count, enable_reranking, fx) ==
    IF query = NoneQuery
    THEN semantic_search_documents(match_count, fx)
    ELSE AfterVectorSearch(query, match_count, enable_reranking,
                           enhanced_vector_search(
                               IF enable_reranking
                               THEN match_count * RerankCandidates
                               ELSE match_count, fx),
                           fx)

\* queries, and the rows the store can return for them
Q_ab == << "A", "b" >>
Queries == {Q_ab, <<>>, NoneQuery}
MaxMatchCount == 2

V_plain   == SearchRow(U_page, 0, << "x" >>, 50, <<>>, "")
V_header  == SearchRow(U_sub, 0, << "x" >>, 50, << "A", "B" >>, "")
V_content == SearchRow(U_page, 1, << "a", "b" >>, 50, <<>>, "info")
V_near    == SearchRow(U_api, 0, << "x" >>, 60, <<>>, "")
V_far     == SearchRow(U_api, 1, << "x" >>, 40, <<>>, "")
\* a row whose score 0.45 + 0.1 + 0.15 is the float above 0.7
V_exact   == SearchRow(U_api, 2, << "x" >>, 70, <<>>, "")
V_boosted == SearchRow(U_sub, 2, << "a", "b" >>, 45, << "a", "b" >>, "")
K_page    == SearchRow(U_page, 0, << "a", "b", SP, "c" >>, NoValue, <<>>, "")
K_api     == SearchRow(U_api, 1, << "a", "b" >>, NoValue, << "a", "b" >>, "")

VectorLists ==
    {<<>>, << V_plain, V_header >>, << V_plain, V_header, V_near >>,
     << V_plain, V_header, V_far >>,
     << V_content, V_plain, V_header >>, << V_plain, V_plain, V_header >>,
     << V_near, V_plain, V_content, V_header >>,
     << V_exact, V_boosted, V_far >>}
KeywordLists == {<<>>, << K_page >>, << K_api, K_page >>}

\* what the collaborators of one search do: the embedding provider, the two
\* vector functions and the keyword select
SearchInputs ==
    {[embedding_fails |-> e, enhanced_raises |-> v[1], enhanced_rows |-> v[2],
      basic_raises |-> b[1], basic_rows |-> b[2],
      keyword_raises |-> k[1], keyword_rows |-> k[2]] :
        e \in BOOLEAN,
        v \in {<< TRUE, <<>> >>} \cup {<< FALSE, l >> : l \in VectorLists},
        b \in {<< TRUE, <<>> >>} \cup {<< FALSE, l >> : l \in VectorLists},
        k \in {<< TRUE, <<>> >>} \cup {<< FALSE, l >> : l \in KeywordLists}}

\* the calls under study: a search, or a combination of two result lists
SearchCalls ==
    {[pc |-> "called", op |-> "search", query |-> q, match_count |-> n,
      enable_reranking |-> r] :
        q \in Queries, n \in 0..MaxMatchCount, r \in BOOLEAN}
    \cup {[pc |-> "called", op |-> "combine", vector_results |-> v,
           keyword_results |-> k] :
             v \in VectorLists, k \in KeywordLists}

InitSearch ==
    /\ crawled_pages = {}
    /\ document_changes = {}
    /\ monitored_documentations = <<>>
    /\ \E c \in SearchCalls :
          calls = [t \in Tasks |-> IF t = SetMin(Tasks) THEN c ELSE IdleCall]
    /\ last = [op |-> "none", flip |-> FALSE]
    /\ issued = {}

ImprovedSearch(t) ==
    /\ calls[t].pc = "called"
    /\ calls[t].op = "search"
    /\ \E fx \in SearchInputs :
          last' = [op |-> "search", query |-> calls[t].query,
                   match_count |-> calls[t].match_count,
                   enable_reranking |-> calls[t].enable_reranking, fx |-> fx,
                   ret |-> improved_semantic_search(calls[t].query,
                                                    calls[t].match_count,
                                                    calls[t].enable_reranking, fx),
                   flip |-> ~last.flip]
    /\ calls' = [calls EXCEPT ![t] = IdleCall]
    /\ UNCHANGED << crawled_pages, document_changes, monitored_documentations, issued >>

CombineResults(t) ==
    /\ calls[t].pc = "called"
    /\ calls[t].op = "combine"
    /\ last' = [op |-> "combine", vector_results |-> calls[t].vector_results,
                keyword_results |-> calls[t].keyword_results,
                ret |-> combine_search_results(calls[t].vector_results,
                                               calls[t].keyword_results),
                flip |-> ~last.flip]
    /\ calls' = [calls EXCEPT ![t] = IdleCall]
    /\ UNCHANGED << crawled_pages, document_changes, monitored_documentations, issued >>

NextSearch ==
    \/ \E t \in Tasks : ImprovedSearch(t)
    \/ \E t \in Tasks : CombineResults(t)

SpecSearch == InitSearch /\ [][NextSearch]_vars

\* ---------------------------------------------------------------------
\* The tools of the MCP server as one system (doc_fetcher_mcp.py)
\* ---------------------------------------------------------------------
\* check_document_changes up to the await of crawler.arun: the rpc
\* get_latest_version
CheckDocumentBegin(t, url) ==
    /\ calls[t].pc = "idle"
    /\ \E rpc_fails \in BOOLEAN :
          IF rpc_fails
          THEN /\ last' = Returned("check_document", url, Failure("exception"),
                                    "none", <<>>, 0, TRUE, <<>>)
               /\ UNCHANGED calls
          ELSE /\ calls' = [calls EXCEPT ![t] =
                              [pc |-> "fetching", op |-> "check_document",
                               url |-> url,
                               current_version |->
                                   get_latest_version(crawled_pages, url)]]
               /\ UNCHANGED last
    /\ UNCHANGED << crawled_pages, document_changes, monitored_documentations, issued >>

\* what the collaborators of a check do after the fetch, in the system of
\* all tools: the fetch raises or fails, or returns a page of two sections,
\* and then each call the branch makes succeeds or fails once (the insert
\* of the chunk rows, the select of the stored rows, the diff, the upsert of
\* the change record)
CheckDocumentInputs(url, current_version) ==
    {CheckFx(fetch, <<>>, FALSE, NoFx, FALSE, <<>>, FALSE) : fetch \in {"raise", "fail"}}
    \cup (IF current_version = 0
          THEN {CheckFx("ok", D_two, FALSE, [NoFx EXCEPT !.insert_fails = f],
                        FALSE, <<>>, FALSE) : f \in {{}, {1}}}
          ELSE {CheckFx("ok", D_two, TRUE, NoFx, FALSE, <<>>, FALSE),
                CheckFx("ok", D_two, FALSE, NoFx, TRUE, <<>>, FALSE)}
               \cup {CheckFx("ok", D_two, FALSE, NoFx, FALSE, << T_mod_low >>, r) :
                         r \in BOOLEAN})

\* the rest of check_document_changes, run when crawler.arun returns: the
\* steps of the helper, with the chunks of smart_chunk_markdown
CheckDocumentFinish(t) ==
    /\ calls[t].pc = "fetching"
    /\ calls[t].op = "check_document"
    /\ \E fx \in CheckDocumentInputs(calls[t].url, calls[t].current_version) :
          Finish(t, "smart", fx)

\* perform_rag_query: the rows of semantic_search_documents, which gives []
\* when its rpc raises
perform_rag_query(st, match_count, fx) ==
    Outcome(st.pages, st.changes, st.monitored,
            Result(TRUE, "queried", NoValue, NoValue, <<>>), fx.basic_raises,
            semantic_search_documents(match_count, fx), FALSE)

\* get_available_sources: sorted(unique_sources) of the rows' metadata,
\* whose source is urlparse(url).netloc; an empty source is left out
get_available_sources(st, fx) ==
    IF fx.select_fails THEN Keep(st, Failure("exception"), TRUE)
    ELSE Outcome(st.pages, st.changes, st.monitored,
                 Result(TRUE, "sources", NoValue, NoValue, <<>>), FALSE,
                 Sorted({Netloc(r.url) : r \in st.pages} \ {<<>>}), FALSE)

\* the rows the rpc of a query returns, or it raises
RagInputs ==
    {[basic_raises |-> TRUE, basic_rows |-> <<>>]}
    \cup {[basic_raises |-> FALSE, basic_rows |-> l] :
              l \in {<<>>, << V_plain, V_header >>}}

RagQuery(t) ==
    /\ calls[t].pc = "idle"
    /\ \E fx \in RagInputs, match_count \in 1..MaxMatchCount :
          Apply(t, "rag_query", <<>>, perform_rag_query(CurrentStore, match_count, fx),
                IdleCall)

AvailableSources(t) ==
    /\ calls[t].pc = "idle"
    /\ \E fx \in SelectInputs :
          Apply(t, "sources", <<>>, get_available_sources(CurrentStore, fx), IdleCall)

\* one check of the loop of check_all_document_changes, as a tool of the server
CheckAllDocumentStep(t) == CheckAllStepWith(t, CheckDocumentInputs)

\* the eight tools of the MCP server, called for one page; a tool may be
\* called while the crawl of another call is awaited
NextTools ==
    \/ \E t \in NextTask, url \in CoreUrls : MonitorBegin(t, url)
    \/ \E t \in Tasks : MonitorFinish(t)
    \/ \E t \in NextTask, url \in CoreUrls : DeleteMonitoring(t, url)
    \/ \E t \in NextTask : ListMonitored(t)
    \/ \E t \in NextTask, url \in CoreUrls : DocumentHistory(t, url)
    \/ \E t \in NextTask, url \in CoreUrls : CheckDocumentBegin(t, url)
    \/ \E t \in Tasks : CheckDocumentFinish(t)
    \/ \E t \in NextTask : CheckAllBegin(t)
    \/ \E t \in Tasks : CheckAllDocumentStep(t)
    \/ \E t \in NextTask : RagQuery(t)
    \/ \E t \in NextTask : AvailableSources(t)

SpecTools == Init /\ [][NextTools]_vars

\* C12: a search returns at most match_count results, whatever the query,
\* the reranking flag and the outcomes of its collaborators.
C12_AtMostMatchCount ==
    last.op = "search" => Len(last.ret) <= last.match_count

\* C12: the except branch of the search returned match_count rows of a
\* vector function that had more
C12_Witness ==
    /\ last.op = "search" /\ last.query = NoneQuery
    /\ last.match_count > 0
    /\ Len(last.ret) = last.match_count
    /\ Len(last.fx.basic_rows) > last.match_count

ChunkKey(r) == << r.url, r.chunk_number >>

\* C13: the combined list holds every (url, chunk_number) of the two lists
\* once, and for a key of the vector list its first vector entry.
C13_CombinedKeysUnique ==
    last.op = "combine" =>
        LET v == last.vector_results
            k == last.keyword_results
            c == last.ret
        IN  /\ \A i, j \in 1..Len(c) : ChunkKey(c[i]) = ChunkKey(c[j]) => i = j
            /\ {ChunkKey(c[i]) : i \in 1..Len(c)}
                  = {ChunkKey(v[i]) : i \in 1..Len(v)}
                    \cup {ChunkKey(k[i]) : i \in 1..Len(k)}
            /\ \A i \in 1..Len(c) :
                  \/ \E j \in 1..Len(v) : c[i] = v[j]
                  \/ /\ \A j \in 1..Len(v) : ChunkKey(v[j]) # ChunkKey(c[i])
                     /\ \E j \in 1..Len(k) : c[i] = k[j]

\* C13: a key of both lists, with different entries, was combined
C13_Witness ==
    /\ last.op = "combine"
    /\ \E i \in 1..Len(last.vector_results), j \in 1..Len(last.keyword_results) :
          /\ ChunkKey(last.vector_results[i]) = ChunkKey(last.keyword_results[j])
          /\ last.vector_results[i] # last.keyword_results[j]
          /\ \E n \in 1..Len(last.ret) : last.ret[n] = last.vector_results[i]

\* some query term occurs in the headers of the row
HeaderMatch(query, r) ==
    \E t \in query_terms(query) : Contains(Lower(r.headers), t)

ContentMatches(query, r) ==
    Cardinality({t \in query_terms(query) : Contains(Lower(r.content), t)})

SectionMatch(r) == r.section \in {"info", "endpoint"}

\* C14 (as claimed): in the results of a search with reranking enabled, of
\* two rows of equal similarity the one whose headers hold a query term
\* stands above the one whose headers hold none.
C14_HeaderMatchRanksAbove ==
    last.op = "search" /\ last.enable_reranking /\ last.query # NoneQuery =>
        \A i, j \in 1..Len(last.ret) :
            (/\ last.ret[i].similarity = last.ret[j].similarity
             /\ HeaderMatch(last.query, last.ret[i])
             /\ ~HeaderMatch(last.query, last.ret[j])) => i < j

\* C14 (amended): in the results of a search that reranked (the rows carry a
\* rerank_score), of two rows equal in similarity, in the number of query
\* terms their content holds and in the section boost, the one whose headers
\* hold a query term stands above the one whose headers hold none.
C14_HeaderMatchBreaksTies ==
    last.op = "search" /\ last.enable_reranking /\ last.query # NoneQuery =>
        \A i, j \in 1..Len(last.ret) :
            (/\ last.ret[i].rerank_score # NoScore
             /\ last.ret[j].rerank_score # NoScore
             /\ last.ret[i].similarity = last.ret[j].similarity
             /\ ContentMatches(last.query, last.ret[i])
                   = ContentMatches(last.query, last.ret[j])
             /\ SectionMatch(last.ret[i]) = SectionMatch(last.ret[j])
             /\ HeaderMatch(last.query, last.ret[i])
             /\ ~HeaderMatch(last.query, last.ret[j])) => i < j

\* C14: a reranked result holds V_header above V_plain although the vector
\* search returned V_plain first
C14_Witness ==
    /\ last.op = "search" /\ last.enable_reranking /\ last.query = Q_ab
    /\ ~last.fx.enhanced_raises
    /\ last.fx.enhanced_rows = << V_plain, V_header, V_far >>
    /\ Len(last.ret) = 2
    /\ last.ret[1].url = V_header.url /\ last.ret[1].rerank_score # NoScore
    /\ last.ret[2].url = V_plain.url

\* C15: when the enhanced vector function raises, the search goes on with
\* the rows of the basic vector function (it returns some of them when the
\* basic function has rows and match_count is positive, the first of them
\* first when nothing reranks); when every collaborator fails, the search
\* returns the empty list.
C15_FailuresDegrade ==
    last.op = "search" =>
        /\ (/\ last.fx.embedding_fails /\ last.fx.enhanced_raises
            /\ last.fx.basic_raises /\ last.fx.keyword_raises)
              => last.ret = <<>>
        /\ (/\ last.query # NoneQuery /\ last.fx.enhanced_raises
            /\ ~last.fx.basic_raises /\ last.fx.basic_rows # <<>>
            /\ last.match_count > 0)
              => /\ last.ret # <<>>
                 /\ \A i \in 1..Len(last.ret) :
                       \/ \E j \in 1..Len(last.fx.basic_rows) :
                             ChunkKey(last.ret[i]) = ChunkKey(last.fx.basic_rows[j])
                       \/ \E j \in 1..Len(last.fx.keyword_rows) :
                             ChunkKey(last.ret[i]) = ChunkKey(last.fx.keyword_rows[j])
                 /\ ~last.enable_reranking => last.ret[1] = last.fx.basic_rows[1]

\* C15: the enhanced function and the keyword select raised, and the search
\* returned rows of the basic function
C15_Witness ==
    /\ last.op = "search" /\ last.query = Q_ab
    /\ last.fx.enhanced_raises /\ last.fx.keyword_raises /\ last.fx.embedding_fails
    /\ ~last.fx.basic_raises
    /\ Len(last.ret) = 2
    /\ last.ret[1] = last.fx.basic_rows[1]

\* ---------------------------------------------------------------------
\* AdaptiveChunker.semantic_chunk applied to texts and configurations
\* ---------------------------------------------------------------------
MaxTextLen == 6

\* the characters of the texts: a letter, a sentence end, a newline (the
\* whitespace) and the header mark
TextChars == {"a", ".", NL, "#"}
Texts == UNION {[1..n -> TextChars] : n \in 0..MaxTextLen}

\* AdaptiveChunker(max_chunk_size, min_chunk_size, overlap_size)
AdaptiveChunker(max_chunk_size, min_chunk_size, overlap_size) ==
    [max_chunk_size |-> max_chunk_size, min_chunk_size |-> min_chunk_size,
     overlap_size |-> overlap_size]

MaxSizes == {2, 3, 6}
MinSizes == {1, 3}
Chunkers ==
    UNION {{AdaptiveChunker(m, n, 1) : n \in {x \in MinSizes : x <= m}} :
              m \in MaxSizes}

InitChunk ==
    /\ crawled_pages = {}
    /\ document_changes = {}
    /\ monitored_documentations = <<>>
    /\ \E text \in Texts, cfg \in Chunkers :
          calls = [t \in Tasks |->
                      IF t = SetMin(Tasks)
                      THEN [pc |-> "called", op |-> "chunk", cfg |-> cfg,
                            text |-> text]
                      ELSE IdleCall]
    /\ last = [op |-> "none", flip |-> FALSE]
    /\ issued = {}

\* chunker.semantic_chunk(text)
SemanticChunk(t) ==
    /\ calls[t].pc = "called"
    /\ calls[t].op = "chunk"
    /\ last' = [op |-> "chunk", cfg |-> calls[t].cfg, text |-> calls[t].text,
                ret |-> semantic_chunk(calls[t].cfg, calls[t].text),
                flip |-> ~last.flip]
    /\ calls' = [calls EXCEPT ![t] = IdleCall]
    /\ UNCHANGED << crawled_pages, document_changes, monitored_documentations, issued >>

\* the same text chunked by two chunkers that differ in max_chunk_size
SemanticChunkTwice(t) ==
    /\ calls[t].pc = "called"
    /\ calls[t].op = "chunk"
    /\ \E smaller \in {m \in MaxSizes : /\ m < calls[t].cfg.max_chunk_size
                                        /\ m >= calls[t].cfg.min_chunk_size} :
          last' = [op |-> "chunk_twice", cfg |-> calls[t].cfg,
                   text |-> calls[t].text, smaller |-> smaller,
                   ret |-> semantic_chunk(calls[t].cfg, calls[t].text),
                   ret_smaller |->
                       semantic_chunk([calls[t].cfg EXCEPT !.max_chunk_size = smaller],
                                      calls[t].text),
                   flip |-> ~last.flip]
    /\ calls' = [calls EXCEPT ![t] = IdleCall]
    /\ UNCHANGED << crawled_pages, document_changes, monitored_documentations, issued >>

NextChunk ==
    \/ \E t \in Tasks : SemanticChunk(t)
    \/ \E t \in Tasks : SemanticChunkTwice(t)

SpecChunk == InitChunk /\ [][NextChunk]_vars

\* C16: every chunk semantic_chunk returns, the last one excepted, has a
\* length between min_chunk_size and max_chunk_size + overlap_size.
C16_ChunkLengthsBounded ==
    last.op = "chunk" =>
        \A i \in 1..(Len(last.ret) - 1) :
            /\ Len(last.ret[i]) >= last.cfg.min_chunk_size
            /\ Len(last.ret[i]) <= last.cfg.max_chunk_size + last.cfg.overlap_size

\* C17: semantic_chunk returns at least one chunk for a text that is not
\* empty.
C17_NonEmptyTextHasChunk ==
    last.op = "chunk" /\ last.text # <<>> => last.ret # <<>>

\* C18: a chunker with a smaller max_chunk_size (the same text,
\* min_chunk_size and overlap_size) returns at least as many chunks.
C18_SmallerMaxNeverFewerChunks ==
    last.op = "chunk_twice" => Len(last.ret_smaller) >= Len(last.ret)

\* ---------------------------------------------------------------------
\* DocumentRouter (ingestion.py)
\* ---------------------------------------------------------------------
Digits == {"0", "1", "2", "3", "4", "5", "6", "7", "8", "9"}

\* the text a pattern that ends in $ is matched against: $ also matches
\* before a newline that ends the string
BeforeEnd(s) ==
    IF s # <<>> /\ s[Len(s)] = NL THEN SubSeq(s, 1, Len(s) - 1) ELSE s

\* .*/(w1|w2|...).*T$ where T is one of the literal tails
SlashWord(words, tails) == [kind |-> "slash_word", words |-> words, tails |-> tails]
\* .*/v[0-9]+/.*T$
SlashVersion(tails) == [kind |-> "slash_version", words |-> {}, tails |-> tails]
\* .*T$
Suffix(tails) == [kind |-> "suffix", words |-> {}, tails |-> tails]

SpecExtensions == {<< ".", "j", "s", "o", "n" >>, << ".", "y", "a", "m", "l" >>, << ".", "y", "m", "l" >>}

\* self.url_patterns, in insertion order
url_patterns ==
    << [doc_type |-> "openapi",
        patterns |-> << SlashWord({<< "o", "p", "e", "n", "a", "p", "i" >>, << "s", "w", "a", "g", "g", "e", "r" >>}, SpecExtensions),
                        SlashWord({<< "a", "p", "i", "-", "d", "o", "c", "s" >>}, {<<>>}),
                        SlashVersion(SpecExtensions) >>],
       [doc_type |-> "swagger",
        patterns |-> << SlashWord({<< "s", "w", "a", "g", "g", "e", "r" >>}, SpecExtensions),
                        SlashWord({<< "s", "w", "a", "g", "g", "e", "r", "-", "u", "i" >>}, {<<>>}) >>],
       [doc_type |-> "llms_txt",
        patterns |-> << Suffix({<< "/", "l", "l", "m", "s", ".", "t", "x", "t" >>}), Suffix({<< "/", ".", "w", "e", "l", "l", "-", "k", "n", "o", "w", "n", "/", "l", "l", "m", "s", ".", "t", "x", "t" >>}) >>],
       [doc_type |-> "markdown",
        patterns |-> << Suffix({<< ".", "m", "d" >>}), Suffix({<< ".", "m", "a", "r", "k", "d", "o", "w", "n" >>}),
                        SlashWord({<< "R", "E", "A", "D", "M", "E" >>}, {<<>>}) >>],
       [doc_type |-> "sitemap",
        patterns |-> << SlashWord({<< "s", "i", "t", "e", "m", "a", "p" >>}, {<< ".", "x", "m", "l" >>}),
                        SlashWord({<< "s", "i", "t", "e", "m", "a", "p" >>}, {<< ".", "t", "x", "t" >>}) >>] >>

\* re.match(pattern, s): "." matches no newline
ReMatch(p, s) ==
    /\ \A i \in 1..Len(BeforeEnd(s)) : BeforeEnd(s)[i] # NL
    /\ \E t \in p.tails :
          /\ EndsWith(BeforeEnd(s), t)
          /\ CASE p.kind = "suffix" -> TRUE
               [] p.kind = "slash_word" ->
                    \E i \in 1..Len(BeforeEnd(s)), w \in p.words :
                       /\ BeforeEnd(s)[i] = "/"
                       /\ StartsAt(BeforeEnd(s), i + 1, w)
                       /\ i + Len(w) + Len(t) <= Len(BeforeEnd(s))
               [] p.kind = "slash_version" ->
                    \E i \in 1..Len(BeforeEnd(s)), j \in 1..Len(BeforeEnd(s)) :
                       /\ BeforeEnd(s)[i] = "/"
                       /\ i + 1 <= Len(BeforeEnd(s)) /\ BeforeEnd(s)[i + 1] = "v"
                       /\ j >= i + 3 /\ BeforeEnd(s)[j] = "/"
                       /\ \A k \in (i + 2)..(j - 1) : BeforeEnd(s)[k] \in Digits
                       /\ j + Len(t) <= Len(BeforeEnd(s))

\* the loop over self.url_patterns from entry i on: the type of the first
\* entry with a pattern that matches, "none" without one
RECURSIVE UrlPatternType(_, _)
UrlPatternType(url_lower, i) ==
    IF i > Len(url_patterns) THEN "none"
    ELSE IF \E k \in 1..Len(url_patterns[i].patterns) :
               ReMatch(url_patterns[i].patterns[k], url_lower)
    THEN url_patterns[i].doc_type
    ELSE UrlPatternType(url_lower, i + 1)

\* strategy 2; a content_type of None or '' decides nothing
ContentTypeRule(url_lower, content_type) ==
    IF Contains(Lower(content_type), << "a", "p", "p", "l", "i", "c", "a", "t", "i", "o", "n", "/", "j", "s", "o", "n" >>)
       \/ Contains(Lower(content_type), << "a", "p", "p", "l", "i", "c", "a", "t", "i", "o", "n", "/", "y", "a", "m", "l" >>)
    THEN IF Contains(url_lower, << "o", "p", "e", "n", "a", "p", "i" >>) \/ Contains(url_lower, << "s", "w", "a", "g", "g", "e", "r" >>)
         THEN "openapi" ELSE "none"
    ELSE IF Contains(Lower(content_type), << "t", "e", "x", "t", "/", "x", "m", "l" >>)
            \/ Contains(Lower(content_type), << "a", "p", "p", "l", "i", "c", "a", "t", "i", "o", "n", "/", "x", "m", "l" >>)
    THEN IF Contains(url_lower, << "s", "i", "t", "e", "m", "a", "p" >>) THEN "sitemap" ELSE "none"
    ELSE IF Contains(Lower(content_type), << "t", "e", "x", "t", "/", "m", "a", "r", "k", "d", "o", "w", "n" >>) THEN "markdown"
    ELSE "none"

ContentPreviewSize == 500

\* strategy 3 on content_preview = content[:500].lower()
ContentMarker(content_preview) ==
    IF \E keyword \in {<< "o", "p", "e", "n", "a", "p", "i" >>, << "s", "w", "a", "g", "g", "e", "r" >>, << "\"", "i", "n", "f", "o", "\"", ":" >>, << "\"", "p", "a", "t", "h", "s", "\"", ":" >>} : Contains(content_preview, keyword)
    THEN "openapi"
    ELSE IF StartsAt(content_preview, 1, << "#", SP >>) \/ Contains(content_preview, << "#", "#", SP >>)
    THEN "markdown"
    ELSE IF Contains(content_preview, << "<", "s", "i", "t", "e", "m", "a", "p" >>) \/ Contains(content_preview, << "<", "u", "r", "l", "s", "e", "t" >>)
    THEN "sitemap"
    ELSE "none"

\* the strategies in their order, with the given default
DetectWithDefault(url, content_type, content, default) ==
    IF UrlPatternType(Lower(url), 1) # "none" THEN UrlPatternType(Lower(url), 1)
    ELSE IF content_type # <<>> /\ ContentTypeRule(Lower(url), content_type) # "none"
    THEN ContentTypeRule(Lower(url), content_type)
    ELSE IF content # <<>>
            /\ ContentMarker(Lower(Slice(content, 0, ContentPreviewSize))) # "none"
    THEN ContentMarker(Lower(Slice(content, 0, ContentPreviewSize)))
    ELSE default

\* a router whose default is DocumentType.TEXT
detect_document_type_default_text(url, content_type, content) ==
    DetectWithDefault(url, content_type, content, "text")

\* DocumentRouter.detect_document_type; None and '' are the empty text
detect_document_type(url, content_type, content) ==
    DetectWithDefault(url, content_type, content, "webpage")

\* the inputs of the router
RouterUrls ==
    {<< "h", "t", "t", "p", ":", "/", "/", "h", "/", "o", "p", "e", "n", "a", "p", "i", ".", "j", "s", "o", "n" >>,
     << "h", "t", "t", "p", ":", "/", "/", "h", "/", "s", "w", "a", "g", "g", "e", "r", ".", "y", "m", "l" >>,
     << "h", "t", "t", "p", ":", "/", "/", "h", "/", "s", "w", "a", "g", "g", "e", "r", "-", "u", "i" >>,
     << "h", "t", "t", "p", ":", "/", "/", "h", "/", "a", "p", "i", "-", "d", "o", "c", "s" >>,
     << "h", "t", "t", "p", ":", "/", "/", "h", "/", "v", "1", "/", "a", ".", "j", "s", "o", "n" >>,
     << "h", "t", "t", "p", ":", "/", "/", "h", "/", "l", "l", "m", "s", ".", "t", "x", "t" >>,
     << "h", "t", "t", "p", ":", "/", "/", "h", "/", "A", ".", "M", "D" >>,
     << "h", "t", "t", "p", ":", "/", "/", "h", "/", "R", "E", "A", "D", "M", "E" >>,
     << "h", "t", "t", "p", ":", "/", "/", "h", "/", "s", "i", "t", "e", "m", "a", "p", ".", "x", "m", "l" >>,
     << "h", "t", "t", "p", ":", "/", "/", "h", "/", "s", "i", "t", "e", "m", "a", "p" >>,
     << "h", "t", "t", "p", ":", "/", "/", "h", "/", "O", "p", "e", "n", "a", "p", "i" >>,
     << "h", "t", "t", "p", ":", "/", "/", "h", "/", "p" >>}
ContentTypes ==
    {<<>>,
     << "a", "p", "p", "l", "i", "c", "a", "t", "i", "o", "n", "/", "j", "s", "o", "n" >>,
     << "T", "e", "x", "t", "/", "X", "M", "L" >>,
     << "t", "e", "x", "t", "/", "m", "a", "r", "k", "d", "o", "w", "n" >>,
     << "t", "e", "x", "t", "/", "h", "t", "m", "l" >>}
Contents ==
    {<<>>,
     << "#", SP, "a" >>,
     << "#", "a" >>,
     << "{", "\"", "o", "p", "e", "n", "a", "p", "i", "\"", ":", SP, "3", "}" >>,
     << "{", "\"", "P", "a", "t", "h", "s", "\"", ":", SP, "1", "}" >>,
     << "a", NL, "#", "#", SP, "b" >>,
     << "<", "u", "r", "l", "s", "e", "t", ">" >>,
     << "p", "l", "a", "i", "n" >>}

InitRouter ==
    /\ crawled_pages = {}
    /\ document_changes = {}
    /\ monitored_documentations = <<>>
    /\ \E url \in RouterUrls, content_type \in ContentTypes, content \in Contents :
          calls = [t \in Tasks |->
                      IF t = SetMin(Tasks)
                      THEN [pc |-> "called", op |-> "detect", url |-> url,
                            content_type |-> content_type, content |-> content]
                      ELSE IdleCall]
    /\ last = [op |-> "none", flip |-> FALSE]
    /\ issued = {}

DetectDocumentType(t) ==
    /\ calls[t].pc = "called"
    /\ calls[t].op = "detect"
    /\ last' = [op |-> "detect", url |-> calls[t].url,
                content_type |-> calls[t].content_type,
                content |-> calls[t].content,
                ret |-> detect_document_type(calls[t].url, calls[t].content_type,
                                             calls[t].content),
                flip |-> ~last.flip]
    /\ calls' = [calls EXCEPT ![t] = IdleCall]
    /\ UNCHANGED << crawled_pages, document_changes, monitored_documentations, issued >>

NextRouter == \E t \in Tasks : DetectDocumentType(t)

SpecRouter == InitRouter /\ [][NextRouter]_vars

DocumentTypes ==
    {"openapi", "swagger", "markdown", "llms_txt", "sitemap", "webpage", "text"}

\* the pattern with its letters in lower case
LowerPattern(p) ==
    [p EXCEPT !.words = {Lower(w) : w \in p.words},
              !.tails = {Lower(x) : x \in p.tails}]

\* the entries of the pattern table with a pattern the url matches when the
\* case of the letters is ignored
MatchingEntries(url) ==
    {i \in 1..Len(url_patterns) :
        \E k \in 1..Len(url_patterns[i].patterns) :
            ReMatch(LowerPattern(url_patterns[i].patterns[k]), Lower(url))}

\* the content-type rule that applies to the call, "none" without one
AppliedRule(url, content_type) ==
    IF content_type = <<>> THEN "none" ELSE ContentTypeRule(Lower(url), content_type)

\* the content marker found in the sample, "none" without one
FoundMarker(content) ==
    IF content = <<>> THEN "none"
    ELSE ContentMarker(Lower(Slice(content, 0, ContentPreviewSize)))

\* C19: detect_document_type returns a document type for every url, content
\* type and content sample, and the type is webpage when no url pattern, no
\* content-type rule and no content marker applies.
C19_TotalWithDefault ==
    last.op = "detect" =>
        /\ last.ret \in DocumentTypes
        /\ (/\ MatchingEntries(last.url) = {}
            /\ AppliedRule(last.url, last.content_type) = "none"
            /\ FoundMarker(last.content) = "none") => last.ret = "webpage"

\* C19: a call with a content type and a content sample that decide nothing
\* returned webpage
C19_Witness ==
    /\ last.op = "detect" /\ last.ret = "webpage"
    /\ last.url = U_page
    /\ last.content_type = << "t", "e", "x", "t", "/", "h", "t", "m", "l" >>
    /\ last.content = << "#", "a" >>

\* C20: when the url matches an entry of the pattern table the result is the
\* type of the first such entry, whatever the content type and the content
\* sample; else, when a content-type rule applies, the result is the type of
\* the rule, whatever the content sample.
C20_FirstMatchWins ==
    last.op = "detect" =>
        /\ MatchingEntries(last.url) # {} =>
              /\ last.ret = url_patterns[SetMin(MatchingEntries(last.url))].doc_type
              /\ \A content_type \in ContentTypes, content \in Contents :
                    detect_document_type(last.url, content_type, content) = last.ret
        /\ (/\ MatchingEntries(last.url) = {}
            /\ AppliedRule(last.url, last.content_type) # "none") =>
              /\ last.ret = AppliedRule(last.url, last.content_type)
              /\ \A content \in Contents :
                    detect_document_type(last.url, last.content_type, content)
                       = last.ret

\* ---------------------------------------------------------------------
\* Properties of the aggregated change record and of interleaved calls
\* ---------------------------------------------------------------------
SeverityRank == [low |-> 1, medium |-> 2, high |-> 3]

\* the highest impact of a list of change entries under low < medium < high
HighestSeverity(changes) ==
    CHOOSE x \in {changes[i].impact : i \in 1..Len(changes)} :
        \A i \in 1..Len(changes) : SeverityRank[changes[i].impact] <= SeverityRank[x]

\* C21, as claimed: a call that stored a new version for which the diff
\* provider returned n >= 1 change tuples has persisted exactly one change
\* record for (url, new version); its change_type is multiple when n > 1 and
\* the tuple's type when n = 1, and its change_impact is the highest
\* severity of the tuples under low < medium < high.
C21_OneAggregatedRecord ==
    (/\ last.op = "check" /\ last.ret.kind = "new_version_stored"
     /\ Len(last.ret.changes) >= 1)
        => /\ Cardinality(RecordsOf(last.url, last.ret.version)) = 1
           /\ \A c \in RecordsOf(last.url, last.ret.version) :
                 /\ c.change_type = IF Len(last.ret.changes) > 1 THEN "multiple"
                                    ELSE last.ret.changes[1].type
                 /\ c.change_impact = HighestSeverity(last.ret.changes)

\* two or more calls of check_and_update_document_changes on one url, all
\* begun before any of them returns: the store is empty or holds a first
\* version, and no call begins after a return
RaceTasks == 1..(NumTasks + 1)

InitRace ==
    /\ crawled_pages \in {{}, FirstRows(U_page, AdaptiveChunks[D_ab])}
    /\ document_changes = {}
    /\ monitored_documentations = <<>>
    /\ calls = [t \in RaceTasks |-> IdleCall]
    /\ last = [op |-> "none", url |-> <<>>, ret |-> Failure("none"),
               fetch |-> "none", md |-> <<>>, cur |-> 0, raised |-> FALSE,
               prior |-> {}, data |-> <<>>, flip |-> FALSE]
    /\ issued = {}

RaceIdle == {t \in RaceTasks : calls[t].pc = "idle"}

NextRace ==
    \/ \E t \in (IF RaceIdle = {} THEN {} ELSE {SetMin(RaceIdle)}) :
          last.op = "none" /\ CheckBegin(t, U_page)
    \/ \E t \in RaceTasks : CheckFinish(t)

SpecRace == InitRace /\ [][NextRace]_vars

\* a call of the race returns in this step
RaceReturns ==
    \E t \in RaceTasks : calls[t].pc = "fetching" /\ calls'[t].pc = "idle"

\* the rows a call leaves that fetched md and stored it as version
OwnRows(url, md, version) ==
    {StoredRow(BuildRows(url, ChunkWith("adaptive", md), version)[i]) :
        i \in 1..Len(ChunkWith("adaptive", md))}

\* C22: calls suspended at the fetch are not serialized. A call that read
\* version 0 and fetched content stores it as version 1 whatever the other
\* calls stored meanwhile; every storing call reports the version it read
\* plus one, and when no store call failed in it and its content has a
\* chunk the url's rows are its own rows alone, those of an earlier call
\* being replaced.
C22_InterleavedCallsShareVersion ==
    [][RaceReturns =>
        /\ (last'.fetch = "ok" /\ last'.md # <<>> /\ last'.cur = 0)
              => (last'.ret.kind = "first_version_stored" /\ last'.ret.version = 1)
        /\ last'.ret.kind \in StoredKinds
              => /\ last'.ret.version = last'.cur + 1
                 /\ (~last'.raised
                        /\ OwnRows(last'.url, last'.md, last'.ret.version) # {})
                       => {r \in crawled_pages' : r.url = last'.url}
                              = OwnRows(last'.url, last'.md, last'.ret.version)]_vars

\* C22: every call has returned, the last one stored the two chunks it
\* fetched under version 1, which an earlier call of the race had reported
\* already, and the url's rows are those of the last call
C22_Witness ==
    /\ \A t \in RaceTasks : calls[t].pc = "idle"
    /\ last.op = "check" /\ last.cur = 0 /\ ~last.raised
    /\ last.ret.kind = "first_version_stored" /\ last.ret.version = 1
    /\ 1 \in last.prior
    /\ last.md = D_two
    /\ RowsOf(last.url) = OwnRows(last.url, D_two, 1)
    /\ Cardinality(RowsOf(last.url)) = 2

\* ---------------------------------------------------------------------
\* batch_upsert_documents with contextual embeddings (database.py,
\* embeddings.py): the batches of one call and the tasks of the pool
\* ---------------------------------------------------------------------
\* response.choices[0].message.content.strip() of the chat completion
Context == << "c", "x" >>
ContextSeparator == << NL, "-", "-", "-", NL >>

\* contextualize_chunk when the completion succeeds: f"{context}\n---\n{chunk}"
contextual_text(chunk) == Context \o ContextSeparator \o chunk

\* how a task of the pool ends: contextualize_chunk returns the contextual
\* text ("ok"), it catches the failure of the completion and returns
\* (chunk, False) ("declined"), or the future raises ("raised")
TaskOutcomes == {"ok", "declined", "raised"}

\* a loop that appends nothing usable for a task that failed
TaskResultEmpty(batch_contents, idx, outcome) ==
    IF outcome = "ok" THEN contextual_text(batch_contents[idx]) ELSE <<>>

\* what the loop over as_completed appends for the task of position idx
TaskResult(batch_contents, idx, outcome) ==
    IF outcome = "ok" THEN contextual_text(batch_contents[idx])
    ELSE batch_contents[idx]

\* a loop that is left when the first result has arrived
PoolStarted(call) ==
    call.pending # 1..Len(BatchOf(call.contents, call.batch_size, call.b))
        \/ call.pending = {}

\* the with block of the executor is left: every future was yielded by
\* as_completed
PoolDone(call) == call.pending = {}

\* _process_contextual_batch after the loop: the length check
ProcessedContents(batch_contents, contextual_contents) ==
    IF Len(contextual_contents) # Len(batch_contents) THEN batch_contents
    ELSE contextual_contents

\* _build_batch_data; first is the index in the call's lists of the first
\* element of the batch, marked the indexes whose metadata got the flag
\* contextual_embedding
build_batch_data(url, first, contextual_contents, marked, embedded) ==
    [j \in 1..Len(contextual_contents) |->
        [url          |-> url,
         chunk_number |-> first + j - 2,
         content      |-> contextual_contents[j],
         chunk_size   |-> Len(contextual_contents[j]),
         contextual_embedding |-> (first + j - 1) \in marked,
         embedding    |-> embedded]]

\* the row crawled_pages keeps for an element of batch_data
InsertedRow(data) ==
    [url |-> data.url, chunk_number |-> data.chunk_number,
     version |-> DefaultRowVersion, content |-> data.content,
     chunk_size |-> data.chunk_size,
     contextual_embedding |-> data.contextual_embedding,
     embedding |-> data.embedding]

\* insert(batch_data).execute() raises: the collaborator fails or
\* UNIQUE(url, chunk_number, version) is violated
BatchInsertRaises(pages, batch_data, insert_fails) ==
    \/ insert_fails
    \/ \E j \in 1..Len(batch_data), r \in pages :
          RowKey(r) = RowKey(InsertedRow(batch_data[j]))

\* the call at the start of batch b
StartBatch(call, b) ==
    [call EXCEPT
        !.pc = "pool",
        !.b = b,
        !.pending = IF call.use_contextual
                    THEN 1..Len(BatchOf(call.contents, call.batch_size, b))
                    ELSE {},
        !.contextual_contents =
            IF call.use_contextual THEN <<>>
            ELSE BatchOf(call.contents, call.batch_size, b)]

\* a batch insert that ends the call when it raises
AfterInsertAbort(call, raised) ==
    IF raised \/ call.b >= NumBatches(Len(call.contents), call.batch_size)
    THEN [call EXCEPT !.pc = "done"]
    ELSE StartBatch(call, call.b + 1)

\* the for loop over the batches goes on whether the insert raised or not
AfterInsert(call, raised) ==
    IF call.b >= NumBatches(Len(call.contents), call.batch_size)
    THEN [call EXCEPT !.pc = "done"]
    ELSE StartBatch(call, call.b + 1)

\* the record of a returned call; nothing is raised to the caller
UpsertReturned(call) ==
    [op |-> "upsert", url |-> call.url, contents |-> call.contents,
     batch_size |-> call.batch_size, use_contextual |-> call.use_contextual,
     outcome |-> call.outcome, order |-> call.order, built |-> call.built,
     failed |-> call.failed, delete_failed |-> call.delete_failed,
     raised |-> FALSE, flip |-> ~last.flip]

\* batch_upsert_documents up to the first batch: the delete phase
UpsertBegin(t) ==
    /\ calls[t].pc = "called"
    /\ calls[t].op = "upsert"
    /\ \E d \in {<< FALSE, {} >>, << TRUE, {} >>, << TRUE, {calls[t].url} >>} :
        \E call \in {[calls[t] EXCEPT !.delete_failed = d[1]]} :
          /\ crawled_pages' =
                 DeleteExisting(crawled_pages,
                                IF call.contents = <<>> THEN {} ELSE {call.url},
                                [delete_fails |-> d[1], delete_one_fails |-> d[2]])
          /\ IF call.contents = <<>>
             THEN /\ last' = UpsertReturned(call)
                  /\ calls' = [calls EXCEPT ![t] = IdleCall]
             ELSE /\ calls' = [calls EXCEPT ![t] = StartBatch(call, 1)]
                  /\ UNCHANGED last
    /\ UNCHANGED << document_changes, monitored_documentations, issued >>

\* a future of the pool completes and the loop over as_completed handles it
TaskDone(t) ==
    /\ calls[t].pc = "pool"
    /\ \E idx \in calls[t].pending, outcome \in TaskOutcomes :
        \E first \in {(calls[t].b - 1) * calls[t].batch_size + 1} :
          calls' = [calls EXCEPT ![t] =
              [calls[t] EXCEPT
                  !.pending = calls[t].pending \ {idx},
                  !.contextual_contents =
                      Append(calls[t].contextual_contents,
                             TaskResult(BatchOf(calls[t].contents,
                                                calls[t].batch_size, calls[t].b),
                                        idx, outcome)),
                  !.marked = IF outcome = "ok"
                             THEN calls[t].marked \cup {first + idx - 1}
                             ELSE calls[t].marked,
                  !.outcome = [calls[t].outcome EXCEPT ![first + idx - 1] = outcome],
                  !.order = Append(calls[t].order, first + idx - 1)]]
    /\ UNCHANGED << crawled_pages, document_changes, monitored_documentations,
                    last, issued >>

\* the rest of the batch: batch_create_embeddings (which returns default
\* vectors when the collaborator fails), _build_batch_data and the insert
InsertBatch(t) ==
    /\ calls[t].pc = "pool"
    /\ PoolDone(calls[t])
    /\ \E embedded \in BOOLEAN, insert_fails \in BOOLEAN :
        \E batch_data \in
            {build_batch_data(calls[t].url,
                 (calls[t].b - 1) * calls[t].batch_size + 1,
                 ProcessedContents(BatchOf(calls[t].contents, calls[t].batch_size,
                                           calls[t].b),
                                   calls[t].contextual_contents),
                 calls[t].marked, embedded)} :
         \E raised \in {BatchInsertRaises(crawled_pages, batch_data, insert_fails)} :
          \E call \in {AfterInsert(
                          [calls[t] EXCEPT
                              !.built = calls[t].built \o batch_data,
                              !.failed = IF raised THEN calls[t].failed \cup {calls[t].b}
                                         ELSE calls[t].failed],
                          raised)} :
            /\ crawled_pages' =
                   IF raised THEN crawled_pages
                   ELSE crawled_pages
                        \cup {InsertedRow(batch_data[j]) : j \in 1..Len(batch_data)}
            /\ IF call.pc = "done"
               THEN /\ last' = UpsertReturned(call)
                    /\ calls' = [calls EXCEPT ![t] = IdleCall]
               ELSE /\ calls' = [calls EXCEPT ![t] = call]
                    /\ UNCHANGED last
    /\ UNCHANGED << document_changes, monitored_documentations, issued >>

\* bounds and inputs of the calls of batch_upsert_documents
MaxPoolChunks == 3
PoolChunk == [i \in 1..4 |-> << LowerSeq[i] >>]
PoolContents(n) == [i \in 1..n |-> PoolChunk[((i - 1) % 4) + 1] \o Rep("z", (i - 1) \div 4)]
BatchSizes == {1, 2}

\* the rows an earlier call left for the url
OldRows == FirstRows(U_page, << D_ab >>)

InitPool ==
    /\ crawled_pages \in {{}, OldRows}
    /\ document_changes = {}
    /\ monitored_documentations = <<>>
    /\ \E n \in 0..MaxPoolChunks, batch_size \in BatchSizes, use_contextual \in BOOLEAN :
          calls = [t \in Tasks |->
                      IF t = SetMin(Tasks)
                      THEN [pc |-> "called", op |-> "upsert", url |-> U_page,
                            contents |-> PoolContents(n), batch_size |-> batch_size,
                            use_contextual |-> use_contextual,
                            b |-> 0, pending |-> {}, contextual_contents |-> <<>>,
                            marked |-> {}, outcome |-> [i \in 1..n |-> "none"],
                            order |-> <<>>, built |-> <<>>, failed |-> {},
                            delete_failed |-> FALSE]
                      ELSE IdleCall]
    /\ last = [op |-> "none", flip |-> FALSE]
    /\ issued = {}

NextPool ==
    \/ \E t \in Tasks : UpsertBegin(t)
    \/ \E t \in Tasks : TaskDone(t)
    \/ \E t \in Tasks : InsertBatch(t)

SpecPool == InitPool /\ [][NextPool]_vars

\* the elements of a list
Elements(s) == {s[k] : k \in 1..Len(s)}

\* C23: while a batch is in the pool, every task that has ended has
\* contributed one element to the results: a task that failed (the worker
\* declined or the future raised) the original text of its chunk, with the
\* chunk's metadata left without the flag, and a task that succeeded its
\* contextual text, with the flag set, whatever happened to the other
\* tasks. The batch goes on to the embeddings only when no task is pending.
C23_FailedTaskDegrades ==
    [][\A t \in Tasks :
        (calls[t].pc = "pool" /\ calls[t].use_contextual) =>
            LET call  == calls[t]
                batch == BatchOf(call.contents, call.batch_size, call.b)
                first == (call.b - 1) * call.batch_size + 1
            IN  /\ Len(call.contextual_contents)
                     = Cardinality((1..Len(batch)) \ call.pending)
                /\ \A idx \in (1..Len(batch)) \ call.pending :
                      IF call.outcome[first + idx - 1] = "ok"
                      THEN /\ contextual_text(batch[idx])
                                 \in Elements(call.contextual_contents)
                           /\ (first + idx - 1) \in call.marked
                      ELSE /\ batch[idx] \in Elements(call.contextual_contents)
                           /\ (first + idx - 1) \notin call.marked
                /\ (calls'[t] # call
                       /\ ~(calls'[t].pc = "pool" /\ calls'[t].b = call.b))
                      => call.pending = {}]_vars

\* C23: a batch of two tasks has left the pool, one task failed and the
\* other succeeded, and its rows are written
C23_Witness ==
    /\ last.op = "upsert" /\ last.use_contextual
    /\ Len(last.contents) = 2 /\ last.batch_size = 2
    /\ last.outcome[1] = "raised" /\ last.outcome[2] = "ok"
    /\ last.failed = {}
    /\ \E r \in crawled_pages :
          r.chunk_number = 1 /\ r.contextual_embedding
    /\ \E r \in crawled_pages :
          r.chunk_number = 0 /\ ~r.contextual_embedding

\* C24, as claimed: for every completion order of the tasks, the element
\* of position i that _build_batch_data gets is the contextual or the
\* original text of chunk i, so every row pairs chunk_number i and the
\* metadata of chunk i with the content of chunk i.
C24_ContentsKeepInputOrder ==
    last.op = "upsert" =>
        /\ Len(last.built) = Len(last.contents)
        /\ \A j \in 1..Len(last.built) :
              /\ last.built[j].chunk_number = j - 1
              /\ last.built[j].content =
                    IF last.outcome[j] = "ok" THEN contextual_text(last.contents[j])
                    ELSE last.contents[j]
              /\ last.built[j].contextual_embedding = (last.outcome[j] = "ok")

\* the rows of the url that the returned call inserted
InsertedRows == RowsOf(last.url) \ OldRows

\* the batch that holds element j of the call's lists
BatchNumber(j, batch_size) == ((j - 1) \div batch_size) + 1

\* C25: a returned call raised nothing to its caller, and the store holds
\* the rows of exactly the batches whose insert did not raise: those of a
\* failed batch are absent, those of every other batch, before or after
\* it, are present.
C25_BatchesCommitAlone ==
    last.op = "upsert" =>
        /\ ~last.raised
        /\ {r.chunk_number : r \in InsertedRows}
              = {j - 1 : j \in {k \in 1..Len(last.contents) :
                                   BatchNumber(k, last.batch_size) \notin last.failed}}
        /\ \A r \in InsertedRows :
              r = InsertedRow(last.built[r.chunk_number + 1])

\* C25: three batches, the insert of the second failed, the rows of the
\* first and of the third are stored
C25_Witness ==
    /\ last.op = "upsert"
    /\ Len(last.contents) = 3 /\ last.batch_size = 1
    /\ last.failed = {2}
    /\ {r.chunk_number : r \in InsertedRows} = {0, 2}

\* the candidates of the vector stage of the search that returned last
VectorStage ==
    enhanced_vector_search(IF last.enable_reranking
                           THEN last.match_count * RerankCandidates
                           ELSE last.match_count, last.fx)

\* C26, as claimed: for a query with a term the keyword stage runs whatever
\* the vector stage returned, and its hits, each with similarity 0.5, enter
\* the combine step: the search returns the ranked combination of the
\* vector candidates and the keyword hits, also when there is no vector
\* candidate.
C26_KeywordStageIndependent ==
    (last.op = "search" /\ last.query # NoneQuery /\ search_terms(last.query) # <<>>)
        => /\ \A i \in 1..Len(keyword_search(last.query, last.fx)) :
                 keyword_search(last.query, last.fx)[i].similarity = KeywordSimilarity
           /\ last.ret = CombineAndRank(last.query, last.match_count,
                                        last.enable_reranking,
                                        combine_search_results(
                                            VectorStage,
                                            keyword_search(last.query, last.fx)))

\* the combined list of the search that returned last: the vector
\* candidates, then the keyword hits that are no vector candidate
CombinedList ==
    combine_search_results(VectorStage, keyword_search(last.query, last.fx))

\* C27, as claimed: the search of a query string returns results ordered by
\* descending rerank_score only when reranking is enabled and the combined
\* list is longer than match_count; in every other case it returns the first
\* match_count entries of the combined list in their order, none of them
\* with a rerank_score.
C27_RerankOnlyWhenLonger ==
    (last.op = "search" /\ last.query # NoneQuery) =>
        IF last.enable_reranking /\ Len(CombinedList) > last.match_count
        THEN /\ Len(last.ret) = last.match_count
             /\ \A i \in 1..Len(last.ret) :
                   /\ last.ret[i].rerank_score
                         = final_score(query_terms(last.query), last.ret[i])
                   /\ \E k \in 1..Len(CombinedList) :
                         ChunkKey(CombinedList[k]) = ChunkKey(last.ret[i])
                   /\ i > 1 => ~FloatLess(last.ret[i - 1].rerank_score,
                                           last.ret[i].rerank_score)
        ELSE /\ last.ret = Slice(CombinedList, 0, last.match_count)
             /\ \A i \in 1..Len(last.ret) : last.ret[i].rerank_score = NoScore

\* C28, as claimed: when a call has stored the chunks of a new version and
\* the comparison of the versions then raises, the call returns success
\* false, the url's rows are those of the new content in place of the rows
\* it had, and no change record exists for the new version.
C28_ErrorAfterStoreKeepsNewRows ==
    [][(/\ CheckReturns
        /\ last'.ret.kind = "error_comparing_versions"
        /\ OwnRows(last'.url, last'.md, last'.cur + 1) # {}
        /\ OwnRows(last'.url, last'.md, last'.cur + 1) \subseteq crawled_pages')
       => (/\ ~last'.ret.success
           /\ {r \in crawled_pages' : r.url = last'.url}
                 = OwnRows(last'.url, last'.md, last'.cur + 1)
           /\ ~\E c \in document_changes' :
                 c.url = last'.url /\ c.version = last'.cur + 1)]_vars

\* ---------------------------------------------------------------------
\* monitor_documentation called again after a failure
\* ---------------------------------------------------------------------
MonitorUrls == {U_api, U_map}

\* two tool calls at a time: a call of monitor_documentation, and the call
\* that runs while its crawl is awaited
MonitorTasks == {1, 2}

InitMonitor ==
    /\ crawled_pages = {}
    /\ document_changes = {}
    /\ monitored_documentations = <<>>
    /\ calls = [t \in MonitorTasks |-> IdleCall]
    /\ last = [op |-> "none", url |-> <<>>, ret |-> Failure("none"),
               fetch |-> "none", md |-> <<>>, cur |-> 0, raised |-> FALSE,
               prior |-> {}, data |-> <<>>, flip |-> FALSE]
    /\ issued = {}

\* the task that takes the next call
MonitorIdle == {t \in MonitorTasks : calls[t].pc = "idle"}
MonitorNext == IF MonitorIdle = {} THEN {} ELSE {SetMin(MonitorIdle)}

\* calls of monitor_documentation and of delete_documentation_from_monitoring;
\* a call may begin and return while the crawl of another is awaited
NextMonitor ==
    \/ \E t \in MonitorNext, url \in MonitorUrls : MonitorBegin(t, url)
    \/ \E t \in MonitorTasks : MonitorFinish(t)
    \/ \E t \in MonitorNext, url \in MonitorUrls : DeleteMonitoring(t, url)

SpecMonitor == InitMonitor /\ [][NextMonitor]_vars

\* the failures of monitor_documentation after the monitored record is
\* written: the OpenAPI spec could not be fetched or parsed, the sitemap
\* has no url, the crawl found no content
MonitorFailures == {"openapi_fetch_failed", "no_urls_in_sitemap", "no_content"}

ActiveUrls(rows) == {rows[i].url : i \in {k \in 1..Len(rows) : rows[k].status = "active"}}

\* a call of monitor_documentation returns one of these failures in this step
MonitorFails ==
    /\ last'.flip # last.flip
    /\ last'.op = "monitor"
    /\ last'.ret.kind \in MonitorFailures

\* a call of monitor_documentation for the url gets to its crawl in this step
CrawlBegins(url) ==
    \E t \in MonitorTasks :
        /\ calls[t].pc = "idle"
        /\ calls'[t].pc = "crawling"
        /\ calls'[t].url = url

\* a call of monitor_documentation for the url begins and returns in this step
MonitorReturnsAtOnce(url) ==
    /\ calls' = calls
    /\ last'.flip # last.flip
    /\ last'.op = "monitor"
    /\ last'.url = url

\* the url is recorded as active and has neither a chunk nor a change record
ActiveUnindexed(url, monitored, pages, changes) ==
    /\ url \in ActiveUrls(monitored)
    /\ {r \in pages : r.url = url} = {}
    /\ {c \in changes : c.url = url} = {}

\* C29, as claimed: when monitor_documentation fails because the OpenAPI spec
\* could not be fetched, the sitemap has no url or no content was found, the
\* url is recorded as active and has no stored chunk; and when that call is
\* the last that returned, a further call for the url does not get to the
\* crawl and returns the error "already monitored" (unless its lookup
\* raises).
C29_FailedMonitorStaysActive ==
    [][/\ MonitorFails
             => /\ last'.url \in ActiveUrls(monitored_documentations')
                /\ {r \in crawled_pages' : r.url = last'.url} = {}
       /\ (last.op = "monitor" /\ last.ret.kind \in MonitorFailures)
             => /\ ~CrawlBegins(last.url)
                /\ MonitorReturnsAtOnce(last.url)
                      => (last'.ret.kind = "already_monitored" \/ last'.raised)]_vars

\* C29, amended: monitor_documentation writes the monitored record with
\* status active before it fetches anything and does not write to the store
\* again when it fails.
\*  - A call that gets to its crawl has recorded the url as active and has
\*    written no chunk and no change record.
\*  - A call that returns one of the three failures writes no chunk and no
\*    change record in that step; failing before the crawl it leaves the url
\*    recorded as active, failing after the crawl it leaves the table of
\*    monitored urls as it is.
\*  - A url recorded as active stays so in every step except the return of a
\*    delete_documentation_from_monitoring call that removed it. So the url
\*    of a failed call is active unless it was removed while the crawl was
\*    awaited or since, and its chunks are those stored before the call.
\*  - While a url is recorded as active, no call of monitor_documentation
\*    for it gets to the crawl, and such a call returns the error "already
\*    monitored" (unless its lookup raises) and changes no table.
\*  - The OpenAPI url comes to be recorded as active with neither a chunk
\*    nor a change record only by the return of a call that could not fetch
\*    the spec.
C29_FailedMonitorKeepsRecord ==
    [][/\ \A url \in MonitorUrls :
             CrawlBegins(url)
                => /\ url \in ActiveUrls(monitored_documentations')
                   /\ crawled_pages' = crawled_pages
                   /\ document_changes' = document_changes
       /\ MonitorFails
             => /\ crawled_pages' = crawled_pages
                /\ document_changes' = document_changes
                /\ IF calls' = calls
                   THEN last'.url \in ActiveUrls(monitored_documentations')
                   ELSE monitored_documentations' = monitored_documentations
       /\ \A url \in ActiveUrls(monitored_documentations) :
             /\ url \notin ActiveUrls(monitored_documentations')
                   => /\ last'.flip # last.flip
                      /\ last'.op = "delete"
                      /\ last'.url = url
                      /\ last'.ret.kind = "removed"
             /\ ~CrawlBegins(url)
             /\ MonitorReturnsAtOnce(url)
                   => /\ last'.ret.kind = "already_monitored" \/ last'.raised
                      /\ crawled_pages' = crawled_pages
                      /\ document_changes' = document_changes
                      /\ monitored_documentations' = monitored_documentations
       /\ (/\ ActiveUnindexed(U_api, monitored_documentations', crawled_pages',
                               document_changes')
           /\ ~ActiveUnindexed(U_api, monitored_documentations, crawled_pages,
                                document_changes))
             => (MonitorFails /\ last'.url = U_api)]_vars

\* C29: a call for the OpenAPI url was answered "already monitored" while
\* the url is recorded as active and has neither a chunk nor a change
\* record: the call that recorded it could not fetch the spec, and this
\* call is a retry
C29_Witness ==
    /\ last.op = "monitor"
    /\ last.url = U_api
    /\ last.ret.kind = "already_monitored"
    /\ ActiveUnindexed(U_api, monitored_documentations, crawled_pages,
                       document_changes)

\* ---------------------------------------------------------------------
\* process_openapi_documentation called beside monitor_documentation
\* ---------------------------------------------------------------------
\* no tool of the server calls process_openapi_documentation; these are the
\* calls of a program that uses the function of the module on the store the
\* tools use, also while the crawl of a monitor_documentation call is awaited
NextWorkflows ==
    \/ \E t \in MonitorNext, url \in MonitorUrls : MonitorBegin(t, url)
    \/ \E t \in MonitorTasks : MonitorFinish(t)
    \/ \E t \in MonitorNext : ProcessOpenApi(t, U_api)

SpecWorkflows == InitMonitor /\ [][NextWorkflows]_vars

\* ---------------------------------------------------------------------------
\* crawling.py: crawl_website_recursively

MaxCrawlDepth == 2
MaxCrawlPages == 2
MinContentLength == 50

L_b == << "/", "b" >>
L_c == << "c" >>
L_frag == << "#", "f" >>
L_a_frag == P_a \o << "#", "f" >>
L_bad == << "h","t","t","p",":","/","/","[","h","/","c" >>

\* the finite link graphs crawled: the "internal" links each page reports
LinkGraphs ==
    { \* a cycle a -> b -> a, a self link by fragment, a link off the domain
      (P_a :> << L_b, L_frag >>) @@ (P_b :> << L_a_frag, P_ext >>),
      \* a chain a -> b -> c closing into a cycle
      (P_a :> << L_b >>) @@ (P_b :> << L_c >>) @@ (P_c :> << P_a, L_b >>),
      \* repeated links, a link off the domain and links back to the start
      (P_a :> << L_b, P_ext, L_c, P_b >>) @@ (P_b :> << L_a_frag >>)
          @@ (P_c :> << L_b, P_a >>),
      \* the foreign page first, then a page of the domain
      (P_a :> << P_ext, L_b >>) @@ (P_b :> <<>>) @@ (P_ext :> << P_a >>),
      \* a link that urljoin rejects, before a link to a page of the domain
      (P_a :> << L_b, L_bad, L_c >>) @@ (P_b :> << L_c >>) @@ (P_c :> <<>>) }

\* urldefrag of the urls fetched, computed once
RequestUrls == [url \in {P_a, L_a_frag, P_b, P_c, P_ext} |-> urldefrag(url)]

\* result.links["internal"] of a fetched page; the fragment of a url is not
\* part of the request, so a url with a fragment gives the page without it
LinksOf(graph, url) ==
    IF RequestUrls[url] \in DOMAIN graph THEN graph[RequestUrls[url]] ELSE <<>>

\* what crawler.arun and the content extraction give for one page: the fetch
\* raises, reports no success, or gives content of some stripped length
FetchOutcomes ==
    { [raises |-> TRUE,  success |-> FALSE, length |-> 0],
      [raises |-> FALSE, success |-> FALSE, length |-> 0],
      [raises |-> FALSE, success |-> TRUE,  length |-> 0],
      [raises |-> FALSE, success |-> TRUE,  length |-> MinContentLength - 1],
      [raises |-> FALSE, success |-> TRUE,  length |-> MinContentLength] }

\* the step of the loop body a fetch ends in
FetchStep(f) ==
    IF f.raises THEN "raised"
    ELSE IF ~f.success THEN "failed"
    ELSE IF f.length < MinContentLength THEN "thin"
    ELSE "stored"

QueuedUrls(to_crawl) == {to_crawl[k][1] : k \in 1..Len(to_crawl)}

\* the filter by domain of the link loop, without the domain comparison
AnyDomainLink(absolute_url, base_domain) == TRUE

\* the filter by domain of the link loop
InternalLink(absolute_url, base_domain) == Netloc(absolute_url) = base_domain

\* urljoin, urldefrag or urlparse raises ValueError for the link
LinkRaises(url, link_url) ==
    \/ urljoin_raises(url, link_url)
    \/ urldefrag_raises(urljoin(url, link_url))
    \/ urlparse(urldefrag(urljoin(url, link_url))).raises

\* the link resolved against the url of its page: whether that raises,
\* and urldefrag(urljoin(url, link_url))[0]
ResolveLink(url, link_url) ==
    IF LinkRaises(url, link_url) THEN [raises |-> TRUE, absolute_url |-> <<>>]
    ELSE [raises |-> FALSE, absolute_url |-> urldefrag(urljoin(url, link_url))]

\* the links of the graphs resolved against the pages, computed once
ResolvedLinks ==
    [url \in {P_a, L_a_frag, P_b, P_c, P_ext} |->
        [link_url \in {L_b, L_c, L_frag, L_a_frag, L_bad, P_a, P_b, P_ext} |->
            ResolveLink(url, link_url)]]

\* the loop over internal_links: resolve, drop the fragment, filter, queue;
\* a link that raises ends the loop in the except branch, with the links
\* queued before it
RECURSIVE QueueLinks(_, _, _, _, _, _)
RECURSIVE QueueLink(_, _, _, _, _, _, _)
QueueLink(to_crawl, internal_links, url, depth, visited, base_domain, link) ==
    IF link.raises THEN to_crawl
    ELSE QueueLinks(IF /\ InternalLink(link.absolute_url, base_domain)
                       /\ link.absolute_url \notin visited
                       /\ link.absolute_url \notin QueuedUrls(to_crawl)
                    THEN Append(to_crawl, << link.absolute_url, depth + 1 >>)
                    ELSE to_crawl,
                    Tail(internal_links), url, depth, visited, base_domain)

QueueLinks(to_crawl, internal_links, url, depth, visited, base_domain) ==
    IF internal_links = <<>> THEN to_crawl
    ELSE QueueLink(to_crawl, internal_links, url, depth, visited, base_domain,
                   ResolvedLinks[url][Head(internal_links)])

\* the loop condition
CrawlContinues(call) ==
    call.to_crawl # <<>> /\ Len(call.results) < call.max_pages

\* the state of the call before the loop, for a start url that urlparse
\* accepts; pc is "crawling" at the test of the loop, "fetching" while
\* crawler.arun is awaited for page, "sleeping" while asyncio.sleep(delay)
\* is awaited with the result of the fetch in hand, "fetched" with the
\* result in hand and no sleep to await
CrawlCall(graph, start_url, max_depth, max_pages, delay) ==
    [pc |-> "crawling", op |-> "crawl", url |-> start_url, current_version |-> 0,
     graph |-> graph, max_depth |-> max_depth, max_pages |-> max_pages,
     delay |-> delay,
     visited |-> {}, results |-> <<>>, to_crawl |-> << << start_url, 0 >> >>,
     base_domain |-> Netloc(start_url), fetched |-> <<>>,
     page |-> << <<>>, 0 >>, result |-> << >>]

\* the loop body up to the await of crawler.arun: the first entry is taken
\* off the queue and skipped, or marked visited and fetched
CrawlPopped(call) ==
    IF call.to_crawl[1][1] \in call.visited \/ call.to_crawl[1][2] > call.max_depth
    THEN [call EXCEPT !.to_crawl = Tail(call.to_crawl)]
    ELSE [call EXCEPT !.pc = "fetching",
                      !.to_crawl = Tail(call.to_crawl),
                      !.page = call.to_crawl[1],
                      !.visited = call.visited \cup {call.to_crawl[1][1]},
                      !.fetched = Append(call.fetched,
                                         [url |-> call.to_crawl[1][1],
                                          step |-> "pending"])]

\* the step the fetch of the page ended in is noted
FetchEnded(call, step) ==
    [call EXCEPT !.pc = "crawling", !.result = << >>,
                 !.fetched[Len(call.fetched)].step = step]

\* the loop body from the test of result.success, for the result f of the
\* fetch: a failed
\* result or thin content ends the iteration, content is appended to the
\* results and the links of the page are queued
CrawlProcessed(call, f) ==
    IF FetchStep(f) # "stored" THEN FetchEnded(call, FetchStep(f))
    ELSE [FetchEnded(call, "stored") EXCEPT
             !.results = Append(call.results,
                                [url |-> call.page[1], depth |-> call.page[2]]),
             !.to_crawl =
                 IF call.page[2] < call.max_depth
                 THEN QueueLinks(call.to_crawl, LinksOf(call.graph, call.page[1]),
                                 call.page[1], call.page[2], call.visited,
                                 call.base_domain)
                 ELSE call.to_crawl]

\* crawler.arun has returned f or raised: an exception ends the iteration
\* in the except branch; a result is kept in hand, over the sleep when
\* delay > 0
CrawlAfterFetch(call, f) ==
    IF f.raises THEN FetchEnded(call, "raised")
    ELSE [call EXCEPT !.pc = IF call.delay > 0 THEN "sleeping" ELSE "fetched",
                      !.result = << f >>]

CrawlReturned(call) ==
    [op |-> "crawl", url |-> call.url, max_depth |-> call.max_depth,
     max_pages |-> call.max_pages, graph |-> call.graph, results |-> call.results,
     to_crawl |-> call.to_crawl, base_domain |-> call.base_domain,
     fetched |-> call.fetched, flip |-> ~last.flip]

\* the loop goes round: an entry is taken off the queue, and the call
\* suspends in crawler.arun unless the entry is skipped
CrawlNext(t) ==
    /\ calls[t].pc = "crawling"
    /\ CrawlContinues(calls[t])
    /\ calls' = [calls EXCEPT ![t] = CrawlPopped(calls[t])]
    /\ UNCHANGED << crawled_pages, document_changes, monitored_documentations,
                    last, issued >>

\* the awaited crawler.arun completes: it returns a result or raises
CrawlFetched(t) ==
    /\ calls[t].pc = "fetching"
    /\ \E f \in FetchOutcomes :
          calls' = [calls EXCEPT ![t] = CrawlAfterFetch(calls[t], f)]
    /\ UNCHANGED << crawled_pages, document_changes, monitored_documentations,
                    last, issued >>

\* the result is processed, after the awaited asyncio.sleep(delay) has
\* completed when delay > 0
CrawlResume(t) ==
    /\ calls[t].pc \in {"sleeping", "fetched"}
    /\ \E f \in FetchOutcomes :
          /\ calls[t].result = << f >>
          /\ calls' = [calls EXCEPT ![t] = CrawlProcessed(calls[t], f)]
    /\ UNCHANGED << crawled_pages, document_changes, monitored_documentations,
                    last, issued >>

\* the loop condition fails and the results are returned
CrawlReturn(t) ==
    /\ calls[t].pc = "crawling"
    /\ ~CrawlContinues(calls[t])
    /\ last' = CrawlReturned(calls[t])
    /\ calls' = [calls EXCEPT ![t] = IdleCall]
    /\ UNCHANGED << crawled_pages, document_changes, monitored_documentations, issued >>

\* one call, with and without a delay between the requests
InitCrawl ==
    /\ crawled_pages = {}
    /\ document_changes = {}
    /\ monitored_documentations = <<>>
    /\ \E graph \in LinkGraphs, start_url \in {P_a, L_a_frag},
          max_depth \in 0..MaxCrawlDepth, max_pages \in 0..MaxCrawlPages,
          delay \in {0, 1} :
          calls = [t \in Tasks |->
                      IF t = SetMin(Tasks)
                      THEN CrawlCall(graph, start_url, max_depth, max_pages, delay)
                      ELSE IdleCall]
    /\ last = [op |-> "none", flip |-> FALSE]
    /\ issued = {}

NextCrawl ==
    \/ \E t \in Tasks : CrawlNext(t)
    \/ \E t \in Tasks : CrawlFetched(t)
    \/ \E t \in Tasks : CrawlResume(t)
    \/ \E t \in Tasks : CrawlReturn(t)

\* the event loop runs the coroutine whenever it can run and ends its sleep
\* after the delay; nothing makes an awaited crawler.arun complete
SpecCrawl ==
    /\ InitCrawl
    /\ [][NextCrawl]_vars
    /\ \A t \in Tasks : /\ WF_vars(CrawlNext(t))
                        /\ WF_vars(CrawlResume(t))
                        /\ WF_vars(CrawlReturn(t))

\* the crawls running and the crawl that returned
CrawlRecords ==
    {calls[t] : t \in {u \in Tasks : calls[u].pc \in {"crawling", "fetching", "sleeping", "fetched"}}}
        \cup (IF last.op = "crawl" THEN {last} ELSE {})

CrawlBounded(c) ==
    /\ Len(c.results) <= c.max_pages
    /\ \A i, j \in 1..Len(c.fetched) : c.fetched[i].url = c.fetched[j].url => i = j
    /\ \A k \in 1..Len(c.results) :
          /\ c.results[k].depth <= c.max_depth
          /\ Netloc(c.results[k].url) = Netloc(c.url)

\* the pages of the results are the pages whose fetch gave content, in the
\* order fetched: a failed fetch adds nothing and takes nothing away
RECURSIVE StoredUrls(_)
StoredUrls(fetched) ==
    IF fetched = <<>> THEN <<>>
    ELSE (IF Head(fetched).step = "stored" THEN << Head(fetched).url >> ELSE <<>>)
             \o StoredUrls(Tail(fetched))

CrawlSkipsFailures(c) ==
    [k \in 1..Len(c.results) |-> c.results[k].url] = StoredUrls(c.fetched)

\* a crawl ends only with the queue empty or the page limit reached
CrawlEndedByLoop ==
    last.op = "crawl" => (last.to_crawl = <<>> \/ Len(last.results) >= last.max_pages)

\* what the claim says of every state: at most max_pages results, no url
\* fetched twice, every result within max_depth and on the netloc of the
\* start url, a failed or raising fetch left out of the results, and no
\* return before the queue is empty or the page limit is reached
CrawlSafe ==
    /\ \A c \in CrawlRecords : CrawlBounded(c) /\ CrawlSkipsFailures(c)
    /\ CrawlEndedByLoop

\* a call is suspended in crawler.arun
FetchPending == \E t \in Tasks : calls[t].pc = "fetching"

\* C30, as claimed: crawl_website_recursively returns for every finite link
\* graph, with at most max_pages results; no url is fetched twice, every
\* returned page has depth <= max_depth and the netloc of the start url, and
\* a page whose fetch fails or raises is left out of the results while the
\* crawl goes on.
C30_CrawlTerminatesBounded ==
    /\ []CrawlSafe
    /\ <>(last.op = "crawl")

\* C30, amended: the same, but the call returns only if no awaited
\* crawler.arun stays pending for ever: for every finite link graph, either
\* a fetch never completes or the call returns.
C30_CrawlTerminatesIfFetchesReturn ==
    /\ []CrawlSafe
    /\ (<>[]FetchPending) \/ <>(last.op = "crawl")

\* a crawl from a page that links off the domain returned
\* max_pages pages, the last at depth max_depth, after a fetch in between
\* had failed
C30_Witness ==
    /\ last.op = "crawl"
    /\ last.url = P_a
    /\ last.max_pages >= 2
    /\ Len(last.results) = last.max_pages
    /\ \E k \in 1..Len(last.fetched) :
          /\ last.fetched[k].step \in {"failed", "raised"}
          /\ \E j \in (k + 1)..Len(last.fetched) : last.fetched[j].step = "stored"
    /\ last.results[Len(last.results)].depth = last.max_depth
    /\ \E k \in 1..Len(LinksOf(last.graph, P_a)) : LinksOf(last.graph, P_a)[k] = P_ext

====
